---------------------------- MODULE Spec2Model ----------------------------
(***************************************************************************)
(* Model of the notflix subtitle subsystem: the timestamp parser and the   *)
(* cue parser (parseSubtitles, identical in the React page and the Express *)
(* backend) and the React player's subtitle state machine (track           *)
(* selection, subtitle fetch, time-update handler, overlay); the Vue       *)
(* player's text tracks, the movie list page's fetchMovies, and the        *)
(* backend's subtitle and video routes.                                    *)
(*                                                                         *)
(* Representation.  A JavaScript string is a sequence of one-character     *)
(* strings.  A JavaScript number is a record [nan, v]: nan is TRUE for     *)
(* NaN, otherwise v is the value.  Times are fixed-point: v counts units   *)
(* of 10^-FracDigits seconds, which is exact for every input whose         *)
(* fraction has at most FracDigits digits (all inputs drawn here).         *)
(* parseFloat's exponent and Infinity forms are not modelled: no input     *)
(* drawn here has an 'e' or 'I' directly where a number could continue.    *)
(***************************************************************************)
EXTENDS Integers, Sequences, FiniteSets, TLC

VARIABLES
    \* ---- React player (page component Home) ----
    selectedMovie,        \* useState(null): NoMovie or a movie id
    selectedSubtitleUrl,  \* useState(null): NoUrl or a subtitle URL
    subtitles,            \* useState([]): the cue sequence the resolver reads
    currentSubtitle,      \* useState(''): the resolved text
    currentTime,          \* useState(0)
    videoTime,            \* videoRef.current.currentTime (playback engine)
    volume,               \* useState(1), in hundredths
    isPlaying,            \* useState(false)
    pending,              \* subtitle fetches in flight: URL -> how many
    lastOp,               \* the handler that ran last
    subsFrom,             \* history: the URL whose parse `subtitles` was set from
    \* ---- parseTimestamp applied to drawn inputs ----
    tsParts,              \* the colon-separated segments the input was built from
    tsInput,              \* the input string
    tsResult,             \* parseTimestamp(tsInput)
    tsExpect,             \* for a formatted input: the value it was formatted from
    \* ---- parseSubtitles applied to drawn inputs ----
    psBlocks,             \* the cue blocks the inputs were rendered from
    psEol,                \* the line ending used by the renderings
    psShort,              \* whether the WebVTT rendering omits the hours
    psVtt,                \* parseSubtitles(WebVTT rendering of psBlocks)
    psSrt,                \* parseSubtitles(SRT rendering of psBlocks)
    \* ---- parseSubtitles (frontend and backend) applied to drawn lines ----
    lnLines,              \* the lines the input text is made of
    lnFront,              \* the frontend's parseSubtitles(input)
    lnBack,               \* the backend's parseSubtitles(input)
    \* ---- two calls of parseSubtitles one after the other ----
    twTexts,              \* the texts of the first and of the second call
    twLocals,             \* currentCue, textBuffer, parsedSubtitles of the last call
    twResults,            \* the values returned so far
    \* ---- parseSubtitles applied to a text and to the same text laid out anew ----
    lyLines,              \* the lines of the text
    lyEol,                \* the line ending of the second layout
    lyBlank,              \* the blank line the second layout adds, and where
    lyPad,                \* the line the second layout pads with white space
    lyPlain,              \* parseSubtitles(the lines joined by line feeds)
    lyLaid,               \* parseSubtitles(the second layout)
    \* ---- backend: GET /api/subtitles/:movieId ----
    srMovieId,            \* req.params.movieId
    srFileName,           \* req.query.fileName, as its '/'-separated segments
    srStatus,             \* the response status, 0 while unanswered
    srRead,               \* the path handed to readSubtitleFile, if any
    \* ---- backend: GET /movies/:folder/:file, per request ----
    tcReq,                \* the request: "none", "open", "closed"
    tcProc,               \* its ffmpeg process
    tcRes,                \* its response: "none", "open", "ended"
    tcErrPending,         \* the 'error' event of the process not yet emitted
    \* ---- movie list page (pages/index.vue) ----
    listMovies,           \* movies = ref([])
    listSelected,         \* selected = ref(null)
    listLoading,          \* loading = ref(true)
    listError,            \* error = ref(null)
    listPc,               \* where fetchMovies is
    listOp,               \* the step that ran last
    listData,             \* history: what res.json() resolved to
    \* ---- Vue player (component YouTubePlayer) ----
    vueMovie,             \* props.movie: a movie id
    vueActiveSubtitle,    \* ref activeSubtitle: a track index, -1 for Off
    vueTrackModes,        \* videoEl.textTracks[i].mode, one per track
    vueLastCall,          \* history: the index of the last setActiveSubtitle call
    vueModeTimers,        \* the indices of the pending setActiveSubtitle timeouts, oldest first
    vueSyncTimer,         \* whether a setTimeout(syncCueText, 200) is pending
    vueCurrentTime,       \* videoEl.currentTime
    vueCurrentCueText,    \* ref currentCueText: the overlay text
    vueLastOp             \* the callback that ran last

playerVars == <<selectedMovie, selectedSubtitleUrl, subtitles, currentSubtitle,
                currentTime, videoTime, volume, isPlaying, pending, lastOp, subsFrom>>
tsVars == <<tsParts, tsInput, tsResult, tsExpect>>
psVars == <<psBlocks, psEol, psShort, psVtt, psSrt>>
lnVars == <<lnLines, lnFront, lnBack>>
twVars == <<twTexts, twLocals, twResults>>
vueVars == <<vueMovie, vueActiveSubtitle, vueTrackModes, vueModeTimers, vueLastCall, vueSyncTimer,
             vueCurrentTime, vueCurrentCueText, vueLastOp>>
lyVars == <<lyLines, lyEol, lyBlank, lyPad, lyPlain, lyLaid>>
srVars == <<srMovieId, srFileName, srStatus, srRead>>
tcVars == <<tcReq, tcProc, tcRes, tcErrPending>>
listVars == <<listMovies, listSelected, listLoading, listError, listPc, listOp, listData>>
pageVars == <<playerVars, tsVars, psVars, lnVars, twVars, vueVars, lyVars>>
vars == <<pageVars, srVars, tcVars, listVars>>

-----------------------------------------------------------------------------
(* Bounds of the model *)

\* Fraction digits the fixed-point time unit keeps.
FracDigits == 3
\* Most colon-separated segments of a drawn timestamp input.
MaxSegs == 4
\* Most cue blocks of a rendered subtitle file.
MaxCues == 2
\* Most subtitle fetches in flight at once.
MaxPending == 2

-----------------------------------------------------------------------------
(* JavaScript numbers *)

RECURSIVE Pow10(_)
Pow10(n) == IF n = 0 THEN 1 ELSE 10 * Pow10(n - 1)

\* One second in time units.
Unit == Pow10(FracDigits)
\* n milliseconds in time units.
Ms(n) == n * (Unit \div 1000)

Num(x) == [nan |-> FALSE, v |-> x]
NaN == [nan |-> TRUE, v |-> 0]

\* a + b
NumAdd(a, b) == IF a.nan \/ b.nan THEN NaN ELSE Num(a.v + b.v)
\* a * k for an integer literal k
NumTimes(a, k) == IF a.nan THEN NaN ELSE Num(a.v * k)
\* a >= b and a <= b: false when either side is NaN
NumGe(a, b) == ~a.nan /\ ~b.nan /\ a.v >= b.v
NumLe(a, b) == ~a.nan /\ ~b.nan /\ a.v <= b.v

-----------------------------------------------------------------------------
(* JavaScript strings *)

Digits == <<"0", "1", "2", "3", "4", "5", "6", "7", "8", "9">>
IsDigit(c) == \E i \in 1..10 : Digits[i] = c
DigitVal(c) == (CHOOSE i \in 1..10 : Digits[i] = c) - 1
\* White space and line terminators, as String.prototype.trim and the
\* numeric parsers skip them.
IsSpace(c) == c \in {" ", "\t", "\r", "\n"}

\* s.slice(i - 1): the characters from position i on
From(s, i) == IF i > Len(s) THEN <<>> ELSE SubSeq(s, i, Len(s))

\* Whether pat occurs in s at position i.
MatchAt(s, pat, i) ==
    /\ i + Len(pat) - 1 <= Len(s)
    /\ \A k \in 1..Len(pat) : s[i + k - 1] = pat[k]

\* s.indexOf(pat) + 1, and 0 when pat does not occur
IndexOf(s, pat) ==
    IF \E i \in 1..Len(s) : MatchAt(s, pat, i)
    THEN CHOOSE i \in 1..Len(s) :
            MatchAt(s, pat, i) /\ \A j \in 1..(i - 1) : ~MatchAt(s, pat, j)
    ELSE 0

\* s.includes(pat)
Includes(s, pat) == IndexOf(s, pat) # 0

\* s.replace(pat, rep) with a string pattern: the first occurrence only
ReplaceFirst(s, pat, rep) ==
    LET i == IndexOf(s, pat)
    IN  IF i = 0 THEN s
        ELSE SubSeq(s, 1, i - 1) \o rep \o From(s, i + Len(pat))

\* s.split(sep) for a non-empty separator string
RECURSIVE Split(_, _)
Split(s, sep) ==
    LET i == IndexOf(s, sep)
    IN  IF i = 0 THEN <<s>>
        ELSE <<SubSeq(s, 1, i - 1)>> \o Split(From(s, i + Len(sep)), sep)

\* s.trimStart(), s.trimEnd(), s.trim()
RECURSIVE TrimStart(_)
TrimStart(s) ==
    IF s # <<>> /\ IsSpace(s[1]) THEN TrimStart(Tail(s)) ELSE s
RECURSIVE TrimEnd(_)
TrimEnd(s) ==
    IF s # <<>> /\ IsSpace(s[Len(s)]) THEN TrimEnd(SubSeq(s, 1, Len(s) - 1)) ELSE s
Trim(s) == TrimEnd(TrimStart(s))

\* parts.join(sep)
RECURSIVE Join(_, _)
Join(parts, sep) ==
    IF parts = <<>> THEN <<>>
    ELSE IF Len(parts) = 1 THEN parts[1]
    ELSE parts[1] \o sep \o Join(Tail(parts), sep)

\* Length of the longest prefix of s made of digits.
RECURSIVE DigitRun(_)
DigitRun(s) == IF s # <<>> /\ IsDigit(s[1]) THEN 1 + DigitRun(Tail(s)) ELSE 0

\* Value of a digit string (0 for the empty one).
RECURSIVE DigitsValue(_)
DigitsValue(ds) ==
    IF ds = <<>> THEN 0
    ELSE 10 * DigitsValue(SubSeq(ds, 1, Len(ds) - 1)) + DigitVal(ds[Len(ds)])

\* Value, in time units, of the digits after a decimal point.
RECURSIVE FractionValue(_, _)
FractionValue(ds, place) ==
    IF ds = <<>> \/ place = 0 THEN 0
    ELSE DigitVal(ds[1]) * Pow10(place - 1) + FractionValue(Tail(ds), place - 1)

\* A leading sign: <<factor, rest>>
Signed(s) ==
    IF s # <<>> /\ s[1] = "-" THEN <<-1, Tail(s)>>
    ELSE IF s # <<>> /\ s[1] = "+" THEN <<1, Tail(s)>>
    ELSE <<1, s>>

\* parseInt(s, 10): leading white space, a sign, then the longest run of
\* digits; NaN when there is no digit.  The value is a plain integer.
ParseInt(s) ==
    LET sg == Signed(TrimStart(s))
        n  == DigitRun(sg[2])
    IN  IF n = 0 THEN NaN
        ELSE Num(sg[1] * DigitsValue(SubSeq(sg[2], 1, n)))

\* parseFloat(s): leading white space, a sign, digits, optionally '.' and
\* digits; at least one digit; anything after is ignored.  In time units.
ParseFloat(s) ==
    LET sg   == Signed(TrimStart(s))
        body == sg[2]
        n    == DigitRun(body)
        rest == From(body, n + 1)
        dot  == rest # <<>> /\ rest[1] = "."
        m    == IF dot THEN DigitRun(Tail(rest)) ELSE 0
    IN  IF n = 0 /\ m = 0 THEN NaN
        ELSE Num(sg[1] * (DigitsValue(SubSeq(body, 1, n)) * Unit
                          + (IF m = 0 THEN 0
                             ELSE FractionValue(SubSeq(rest, 2, m + 1), FracDigits))))

-----------------------------------------------------------------------------
(* parseSubtitles and its helper parseTimestamp *)

WEBVTT == <<"W", "E", "B", "V", "T", "T">>
ARROW == <<"-", "-", ">">>

\* Faulty variant: the seconds read with parseInt, losing the fraction.
parseTimestampIntSeconds(timeString) ==
    LET parts == Split(ReplaceFirst(timeString, <<",">>, <<".">>), <<":">>)
        secs(p) == NumTimes(ParseInt(p), Unit)
    IN  IF Len(parts) = 3
        THEN NumAdd(NumAdd(NumTimes(ParseInt(parts[1]), 3600 * Unit),
                           NumTimes(ParseInt(parts[2]), 60 * Unit)), secs(parts[3]))
        ELSE IF Len(parts) = 2
        THEN NumAdd(NumTimes(ParseInt(parts[1]), 60 * Unit), secs(parts[2]))
        ELSE Num(0)

\* Faulty variant: a single segment read as seconds instead of giving 0.
parseTimestampOneSegment(timeString) ==
    LET parts == Split(ReplaceFirst(timeString, <<",">>, <<".">>), <<":">>)
    IN  IF Len(parts) = 3
        THEN NumAdd(NumAdd(NumTimes(ParseInt(parts[1]), 3600 * Unit),
                           NumTimes(ParseInt(parts[2]), 60 * Unit)),
                    ParseFloat(parts[3]))
        ELSE IF Len(parts) = 2
        THEN NumAdd(NumTimes(ParseInt(parts[1]), 60 * Unit), ParseFloat(parts[2]))
        ELSE IF Len(parts) = 1 THEN ParseFloat(parts[1])
        ELSE Num(0)

\* Faulty variant: the ',' separator is not normalised to '.'.
parseTimestampNoComma(timeString) ==
    LET parts == Split(timeString, <<":">>)
    IN  IF Len(parts) = 3
        THEN NumAdd(NumAdd(NumTimes(ParseInt(parts[1]), 3600 * Unit),
                           NumTimes(ParseInt(parts[2]), 60 * Unit)),
                    ParseFloat(parts[3]))
        ELSE IF Len(parts) = 2
        THEN NumAdd(NumTimes(ParseInt(parts[1]), 60 * Unit), ParseFloat(parts[2]))
        ELSE Num(0)

\* Faulty variant: the ',' removed instead of replaced by '.'.
parseTimestampCommaRemoved(timeString) ==
    LET parts == Split(ReplaceFirst(timeString, <<",">>, <<>>), <<":">>)
    IN  IF Len(parts) = 3
        THEN NumAdd(NumAdd(NumTimes(ParseInt(parts[1]), 3600 * Unit),
                           NumTimes(ParseInt(parts[2]), 60 * Unit)),
                    ParseFloat(parts[3]))
        ELSE IF Len(parts) = 2
        THEN NumAdd(NumTimes(ParseInt(parts[1]), 60 * Unit), ParseFloat(parts[2]))
        ELSE Num(0)

\* parseTimestamp(timeString)
parseTimestamp(timeString) ==
    LET normalizedTime == ReplaceFirst(timeString, <<",">>, <<".">>)
        parts == Split(normalizedTime, <<":">>)
    IN  IF Len(parts) = 3
        THEN LET hours   == ParseInt(parts[1])
                 minutes == ParseInt(parts[2])
                 seconds == ParseFloat(parts[3])
             IN  NumAdd(NumAdd(NumTimes(hours, 3600 * Unit),
                               NumTimes(minutes, 60 * Unit)), seconds)
        ELSE IF Len(parts) = 2
        THEN LET minutes == ParseInt(parts[1])
                 seconds == ParseFloat(parts[2])
             IN  NumAdd(NumTimes(minutes, 60 * Unit), seconds)
        ELSE Num(0)

\* subtitleContent.split(/\r?\n/): a line ends at "\n", and one "\r"
\* directly before it belongs to the separator.
SplitLines(s) ==
    LET raw == Split(s, <<"\n">>)
    IN  [i \in 1..Len(raw) |->
            IF i < Len(raw) /\ raw[i] # <<>> /\ raw[i][Len(raw[i])] = "\r"
            THEN SubSeq(raw[i], 1, Len(raw[i]) - 1)
            ELSE raw[i]]

\* Faulty variant: the lines are filtered but not trimmed.
RECURSIVE TrimAndFilterNoTrim(_)
TrimAndFilterNoTrim(ls) ==
    IF ls = <<>> THEN <<>>
    ELSE (IF ls[1] = <<>> THEN <<>> ELSE <<ls[1]>>) \o TrimAndFilterNoTrim(Tail(ls))

\* .map(line => line.trim()).filter(line => line !== '')
RECURSIVE TrimAndFilter(_)
TrimAndFilter(ls) ==
    IF ls = <<>> THEN <<>>
    ELSE LET t == Trim(ls[1])
         IN  (IF t = <<>> THEN <<>> ELSE <<t>>) \o TrimAndFilter(Tail(ls))

\* line.match(/^\d+$/)
AllDigits(line) == line # <<>> /\ \A i \in 1..Len(line) : IsDigit(line[i])

\* Faulty variant: the 'if (currentCue)' guard missing, so that setting the
\* text of null raises a TypeError.
FinalizeUnguarded(st) ==
    IF st.cur = <<>> THEN <<"TypeError">>
    ELSE Append(st.out, [st.cur[1] EXCEPT !.text = Trim(Join(st.buf, <<" ">>))])

\* currentCue.text = textBuffer.join(' ').trim(); parsedSubtitles.push(currentCue)
Finalize(st) ==
    IF st.cur = <<>> THEN st.out
    ELSE Append(st.out, [st.cur[1] EXCEPT !.text = Trim(Join(st.buf, <<" ">>))])

\* The timing line: line.split('-->').map(t => parseTimestamp(t)), the first
\* two results being start and end.
TimingCue(line) ==
    LET ts == Split(line, ARROW)
    IN  [startTime |-> parseTimestamp(ts[1]),
         endTime   |-> parseTimestamp(ts[2]),
         text      |-> <<>>]

\* Faulty variant: textBuffer is not reset when a new cue starts.
LineStepKeepBuffer(st, line, isVTT) ==
    IF isVTT /\ line = WEBVTT THEN st
    ELSE IF ~isVTT /\ AllDigits(line) THEN st
    ELSE IF Includes(line, ARROW)
    THEN [cur |-> <<TimingCue(line)>>, buf |-> st.buf, out |-> Finalize(st)]
    ELSE IF st.cur # <<>>
    THEN [st EXCEPT !.buf = Append(st.buf, line)]
    ELSE st

\* Faulty variant: in SRT mode an all-digit line is skipped only while no cue
\* has started.
LineStepDigitsInsideCue(st, line, isVTT) ==
    IF isVTT /\ line = WEBVTT THEN st
    ELSE IF ~isVTT /\ AllDigits(line) /\ st.cur = <<>> THEN st
    ELSE IF Includes(line, ARROW)
    THEN [cur |-> <<TimingCue(line)>>, buf |-> <<>>, out |-> Finalize(st)]
    ELSE IF st.cur # <<>>
    THEN [st EXCEPT !.buf = Append(st.buf, line)]
    ELSE st

\* Faulty variant: in WebVTT mode the header is skipped only while no cue has
\* started.
LineStepHeaderInsideCue(st, line, isVTT) ==
    IF isVTT /\ line = WEBVTT /\ st.cur = <<>> THEN st
    ELSE IF ~isVTT /\ AllDigits(line) THEN st
    ELSE IF Includes(line, ARROW)
    THEN [cur |-> <<TimingCue(line)>>, buf |-> <<>>, out |-> Finalize(st)]
    ELSE IF st.cur # <<>>
    THEN [st EXCEPT !.buf = Append(st.buf, line)]
    ELSE st

\* Faulty variant: a line is buffered also while no cue has started, and the
\* buffer is cleared only when a cue is finalized.
LineStepBufferBeforeCue(st, line, isVTT) ==
    IF isVTT /\ line = WEBVTT THEN st
    ELSE IF ~isVTT /\ AllDigits(line) THEN st
    ELSE IF Includes(line, ARROW)
    THEN [cur |-> <<TimingCue(line)>>,
          buf |-> IF st.cur = <<>> THEN st.buf ELSE <<>>,
          out |-> Finalize(st)]
    ELSE [st EXCEPT !.buf = Append(st.buf, line)]

\* One iteration of the loop over the lines.  The loop state is currentCue
\* (cur: empty for null, else one cue), textBuffer (buf) and
\* parsedSubtitles (out).
LineStep(st, line, isVTT) ==
    IF isVTT /\ line = WEBVTT THEN st
    ELSE IF ~isVTT /\ AllDigits(line) THEN st
    ELSE IF Includes(line, ARROW)
    THEN [cur |-> <<TimingCue(line)>>, buf |-> <<>>, out |-> Finalize(st)]
    ELSE IF st.cur # <<>>
    THEN [st EXCEPT !.buf = Append(st.buf, line)]
    ELSE st

RECURSIVE LineLoop(_, _, _)
LineLoop(st, lines, isVTT) ==
    IF lines = <<>> THEN st
    ELSE LineLoop(LineStep(st, lines[1], isVTT), Tail(lines), isVTT)

\* Faulty variant: the cue still being built after the loop is not added.
parseSubtitlesNoFlush(subtitleContent) ==
    LET lines == TrimAndFilter(SplitLines(subtitleContent))
        isVTT == lines # <<>> /\ lines[1] = WEBVTT
    IN  LineLoop([cur |-> <<>>, buf |-> <<>>, out |-> <<>>], lines, isVTT).out

\* Faulty variant: the cues sorted by start time before they are returned.
RECURSIVE SortByStart(_)
SortByStart(cues) ==
    IF cues = <<>> THEN <<>>
    ELSE LET m == CHOOSE i \in 1..Len(cues) :
                    \A j \in 1..Len(cues) :
                        \/ cues[i].startTime.v < cues[j].startTime.v
                        \/ cues[i].startTime.v = cues[j].startTime.v /\ i <= j
         IN  <<cues[m]>> \o SortByStart(SubSeq(cues, 1, m - 1) \o From(cues, m + 1))
parseSubtitlesSorted(subtitleContent) ==
    LET lines == TrimAndFilter(SplitLines(subtitleContent))
        isVTT == lines # <<>> /\ lines[1] = WEBVTT
        st    == LineLoop([cur |-> <<>>, buf |-> <<>>, out |-> <<>>], lines, isVTT)
    IN  SortByStart(Finalize(st))

\* Faulty variant: WebVTT mode whenever the first line starts with WEBVTT.
parseSubtitlesHeaderPrefix(subtitleContent) ==
    LET lines == TrimAndFilter(SplitLines(subtitleContent))
        isVTT == lines # <<>> /\ MatchAt(lines[1], WEBVTT, 1)
        st    == LineLoop([cur |-> <<>>, buf |-> <<>>, out |-> <<>>], lines, isVTT)
    IN  Finalize(st)

\* parseSubtitles(subtitleContent)
parseSubtitles(subtitleContent) ==
    LET lines == TrimAndFilter(SplitLines(subtitleContent))
        isVTT == lines # <<>> /\ lines[1] = WEBVTT
        st    == LineLoop([cur |-> <<>>, buf |-> <<>>, out |-> <<>>], lines, isVTT)
    IN  Finalize(st)

\* Faulty variant: the locals of the previous call are still there.
NewLocalsKept(left) == left

\* const parsedSubtitles = []; let currentCue = null; let textBuffer = []:
\* the locals are created by every call, whatever the call before (whose
\* locals are `left`) ended with.
NewLocals(left) == [cur |-> <<>>, buf |-> <<>>, out |-> <<>>]

\* One call of parseSubtitles made after a call that ended with the locals
\* `left`: the locals this call ends with, parsedSubtitles (out) being the
\* value returned.
ParseActivation(left, subtitleContent) ==
    LET lines == TrimAndFilter(SplitLines(subtitleContent))
        isVTT == lines # <<>> /\ lines[1] = WEBVTT
        st    == LineLoop(NewLocals(left), lines, isVTT)
    IN  [cur |-> st.cur, buf |-> st.buf, out |-> Finalize(st)]

-----------------------------------------------------------------------------
(* The Express backend's parseSubtitles and its helper parseTimestamp *)

\* Faulty variant: the backend does not normalise the ',' separator.
backendParseTimestampNoComma(timeString) ==
    LET parts == Split(timeString, <<":">>)
    IN  IF Len(parts) = 3
        THEN NumAdd(NumAdd(NumTimes(ParseInt(parts[1]), 3600 * Unit),
                           NumTimes(ParseInt(parts[2]), 60 * Unit)),
                    ParseFloat(parts[3]))
        ELSE IF Len(parts) = 2
        THEN NumAdd(NumTimes(ParseInt(parts[1]), 60 * Unit), ParseFloat(parts[2]))
        ELSE Num(0)

\* parseTimestamp(timeString) of the backend
backendParseTimestamp(timeString) ==
    LET normalizedTime == ReplaceFirst(timeString, <<",">>, <<".">>)
        parts == Split(normalizedTime, <<":">>)
    IN  IF Len(parts) = 3
        THEN LET hours   == ParseInt(parts[1])
                 minutes == ParseInt(parts[2])
                 seconds == ParseFloat(parts[3])
             IN  NumAdd(NumAdd(NumTimes(hours, 3600 * Unit),
                               NumTimes(minutes, 60 * Unit)), seconds)
        ELSE IF Len(parts) = 2
        THEN LET minutes == ParseInt(parts[1])
                 seconds == ParseFloat(parts[2])
             IN  NumAdd(NumTimes(minutes, 60 * Unit), seconds)
        ELSE Num(0)

\* const [start, end] = line.split('-->').map(t => parseTimestamp(t))
backendTimingCue(line) ==
    LET ts == Split(line, ARROW)
    IN  [startTime |-> backendParseTimestamp(ts[1]),
         endTime   |-> backendParseTimestamp(ts[2]),
         text      |-> <<>>]

\* if (currentCue) { currentCue.text = ...; parsedSubtitles.push(currentCue) }
backendFinalize(st) ==
    IF st.cur = <<>> THEN st.out
    ELSE Append(st.out, [st.cur[1] EXCEPT !.text = Trim(Join(st.buf, <<" ">>))])

\* One iteration of the backend's loop over the lines.
backendLineStep(st, line, isVTT) ==
    IF isVTT /\ line = WEBVTT THEN st
    ELSE IF ~isVTT /\ AllDigits(line) THEN st
    ELSE IF Includes(line, ARROW)
    THEN [cur |-> <<backendTimingCue(line)>>, buf |-> <<>>, out |-> backendFinalize(st)]
    ELSE IF st.cur # <<>>
    THEN [st EXCEPT !.buf = Append(st.buf, line)]
    ELSE st

RECURSIVE backendLineLoop(_, _, _)
backendLineLoop(st, lines, isVTT) ==
    IF lines = <<>> THEN st
    ELSE backendLineLoop(backendLineStep(st, lines[1], isVTT), Tail(lines), isVTT)

\* parseSubtitles(subtitleContent) of the backend
backendParseSubtitles(subtitleContent) ==
    LET lines == TrimAndFilter(SplitLines(subtitleContent))
        isVTT == lines # <<>> /\ lines[1] = WEBVTT
        st    == backendLineLoop([cur |-> <<>>, buf |-> <<>>, out |-> <<>>], lines, isVTT)
    IN  backendFinalize(st)

-----------------------------------------------------------------------------
(* parseTimestamp on drawn inputs *)

\* Two decimal digits of n (n < 100), three decimal digits of n (n < 1000).
Pad2(n) == <<Digits[(n \div 10) + 1], Digits[(n % 10) + 1]>>
Pad3(n) == <<Digits[(n \div 100) + 1]>> \o Pad2(n % 100)

\* The segments of a timestamp written from its fields: hh, mm, ss<sep>fff
\* (form "hms") or mm, ss<sep>fff (form "ms"); ss alone when sep is "none".
FormatParts(f) ==
    LET sec == IF f.sep = "none" THEN Pad2(f.s)
               ELSE Pad2(f.s) \o <<f.sep>> \o Pad3(f.ms)
    IN  IF f.form = "hms" THEN <<Pad2(f.h), Pad2(f.m), sec>>
        ELSE <<Pad2(f.m), sec>>

\* The fields timestamps are written from.
TsFields ==
    [form : {"hms", "ms"}, h : {0, 1}, m : {0, 2, 59}, s : {0, 3, 4},
     ms : {0, 456, 500}, sep : {".", ",", "none"}]
NoFields == [form |-> "raw", h |-> 0, m |-> 0, s |-> 0, ms |-> 0, sep |-> "."]

\* Segments raw inputs are assembled from: empty, numeric, non-numeric,
\* numeric with trailing text, seconds with either separator.
SegPool ==
    { <<>>, <<"0", "0">>, <<"0", "2">>, <<"x">>, <<"1", "x">>,
      <<"0", "3", ".", "4", "5", "6">>, <<"0", "3", ",", "4", "5", "6">>,
      <<"g", "a", "r", "b", "a", "g", "e">> }

\* The inputs drawn: a timestamp written from its fields, or a string
\* assembled from 1..MaxSegs pool segments.
TsDraw ==
    /\ \/ \E f \in TsFields :
             /\ f.form = "ms" => f.h = 0
             /\ f.sep = "none" => f.ms = 0
             /\ tsExpect = f
             /\ tsParts = FormatParts(f)
       \/ \E n \in 1..MaxSegs :
             /\ tsExpect = NoFields
             /\ tsParts \in [1..n -> SegPool]
    /\ tsInput = Join(tsParts, <<":">>)
    /\ tsResult = <<>>

\* The call parseTimestamp(tsInput); tsResult holds the value returned.
CallParseTimestamp ==
    /\ tsResult = <<>>
    /\ tsResult' = <<parseTimestamp(tsInput)>>
    /\ UNCHANGED <<tsParts, tsInput, tsExpect, playerVars, psVars, lnVars, twVars, vueVars, lyVars, srVars, tcVars, listVars>>

-----------------------------------------------------------------------------
(* parseSubtitles on drawn inputs *)

\* A time of t milliseconds written hh:mm:ss<sep>fff, or mm:ss<sep>fff when
\* short and below one hour.
FormatTime(t, sep, short) ==
    LET hms == <<Pad2(t \div 3600000), Pad2((t \div 60000) % 60),
                 Pad2((t \div 1000) % 60) \o <<sep>> \o Pad3(t % 1000)>>
    IN  Join(IF short /\ t < 3600000 THEN Tail(hms) ELSE hms, <<":">>)

\* The timing line 'start --> end' of a block.
TimingLine(b, sep, short) ==
    FormatTime(b.start, sep, short) \o <<" ">> \o ARROW \o <<" ">>
        \o FormatTime(b.end, sep, short)

\* Decimal digits of n >= 0.
RECURSIVE Decimal(_)
Decimal(n) == IF n < 10 THEN <<Digits[n + 1]>>
              ELSE Decimal(n \div 10) \o <<Digits[(n % 10) + 1]>>

\* WebVTT rendering: header, blank line, and per block the timing line with
\* '.' and the text line, blocks separated by a blank line.
RECURSIVE RenderVttBlocks(_, _, _)
RenderVttBlocks(blocks, eol, short) ==
    IF blocks = <<>> THEN <<>>
    ELSE eol \o TimingLine(blocks[1], ".", short) \o eol \o blocks[1].text \o eol
         \o RenderVttBlocks(Tail(blocks), eol, short)
RenderVtt(blocks, eol, short) == WEBVTT \o eol \o RenderVttBlocks(blocks, eol, short)

\* SRT rendering: no header, and per block the cue-index line, the timing
\* line with ',' and the text line, blocks separated by a blank line.
RECURSIVE RenderSrtBlocks(_, _, _)
RenderSrtBlocks(blocks, eol, i) ==
    IF blocks = <<>> THEN <<>>
    ELSE Decimal(i) \o eol \o TimingLine(blocks[1], ",", FALSE) \o eol
         \o blocks[1].text \o eol \o eol
         \o RenderSrtBlocks(Tail(blocks), eol, i + 1)
RenderSrt(blocks, eol) == RenderSrtBlocks(blocks, eol, 1)

\* The cue blocks files are rendered from: timings in milliseconds, one
\* text line.
BlockTimings == { <<1000, 2000>>, <<3000, 4500>>, <<3723456, 3725000>> }
BlockTexts ==
    { <<"H", "e", "l", "l", "o">>, <<"W", "o", "r", "l", "d">>,
      <<"4", "2">>, WEBVTT }
BlockPool ==
    { [start |-> tm[1], end |-> tm[2], text |-> tx] :
        tm \in BlockTimings, tx \in BlockTexts }

\* The inputs drawn: up to MaxCues blocks, the line ending, and whether the
\* WebVTT rendering omits the hours.
PsDraw ==
    /\ \E n \in 0..MaxCues : psBlocks \in [1..n -> BlockPool]
    /\ psEol \in { <<"\n">>, <<"\r", "\n">> }
    /\ psShort \in BOOLEAN
    /\ psVtt = <<>>
    /\ psSrt = <<>>

\* parseSubtitles of the WebVTT rendering; psVtt holds the value returned.
ParseVttRendering ==
    /\ psVtt = <<>>
    /\ psVtt' = <<parseSubtitles(RenderVtt(psBlocks, psEol, psShort))>>
    /\ UNCHANGED <<psBlocks, psEol, psShort, psSrt, playerVars, tsVars, lnVars, twVars, vueVars, lyVars, srVars, tcVars, listVars>>

\* parseSubtitles of the SRT rendering; psSrt holds the value returned.
ParseSrtRendering ==
    /\ psSrt = <<>>
    /\ psSrt' = <<parseSubtitles(RenderSrt(psBlocks, psEol))>>
    /\ UNCHANGED <<psBlocks, psEol, psShort, psVtt, playerVars, tsVars, lnVars, twVars, vueVars, lyVars, srVars, tcVars, listVars>>

-----------------------------------------------------------------------------
(* parseSubtitles, frontend and backend, on texts made of drawn lines *)

\* Most lines of a drawn text.
MaxLines == 3

HeaderWithTitle == <<"W", "E", "B", "V", "T", "T", " ", "-", " ", "t", "i", "t", "l", "e">>
DigitLine == <<"4", "2">>
LineOnePadded == <<" ", "L", "i", "n", "e", " ", "o", "n", "e", " ">>
LineOne == <<"L", "i", "n", "e", " ", "o", "n", "e">>
LineTwo == <<"L", "i", "n", "e", " ", "t", "w", "o">>
\* hh:mm:ss.fff timing, mm:ss,fff timing, and a line with two arrows.
TimingLong == <<"0", "0", ":", "0", "0", ":", "0", "1", ".", "0", "0", "0", " ", "-", "-", ">", " ", "0", "0", ":", "0", "0", ":", "0", "2", ".", "0", "0", "0">>
TimingShort == <<"0", "0", ":", "0", "3", ",", "0", "0", "0", " ", "-", "-", ">", " ", "0", "0", ":", "0", "4", ",", "5", "0", "0">>
TimingTwoArrows == <<"0", "0", ":", "0", "1", " ", "-", "-", ">", " ", "0", "0", ":", "0", "2", " ", "-", "-", ">", " ", "0", "0", ":", "0", "3">>

\* The lines texts are made of: both header forms, a blank line, an
\* all-digit line, text lines (one with white space around it) and timing
\* lines.
LinePool ==
    { WEBVTT, HeaderWithTitle, <<>>, DigitLine, LineOnePadded, LineTwo,
      TimingLong, TimingShort, TimingTwoArrows }

\* The inputs drawn: up to MaxLines lines.
LnDraw ==
    /\ \E n \in 0..MaxLines : lnLines \in [1..n -> LinePool]
    /\ lnFront = <<>>
    /\ lnBack = <<>>

\* The text whose lines are lnLines.
LnInput == Join(lnLines, <<"\n">>)

\* The frontend's parseSubtitles(LnInput); lnFront holds the value returned.
CallFrontendParse ==
    /\ lnFront = <<>>
    /\ lnFront' = <<parseSubtitles(LnInput)>>
    /\ UNCHANGED <<lnLines, lnBack, playerVars, tsVars, psVars, twVars, vueVars, lyVars, srVars, tcVars, listVars>>

\* The backend's parseSubtitles(LnInput); lnBack holds the value returned.
CallBackendParse ==
    /\ lnBack = <<>>
    /\ lnBack' = <<backendParseSubtitles(LnInput)>>
    /\ UNCHANGED <<lnLines, lnFront, playerVars, tsVars, psVars, twVars, vueVars, lyVars, srVars, tcVars, listVars>>

-----------------------------------------------------------------------------
(* parseSubtitles on cue files with cue settings and cue identifiers *)

\* Most cues of a drawn file with cue identifiers.
MaxIdCues == 2

\* Cue settings written after the end timestamp (none, one, one with a
\* numeric value, two).
SettingAlign == <<" ", "a", "l", "i", "g", "n", ":", "s", "t", "a", "r", "t">>
SettingLine == <<" ", "l", "i", "n", "e", ":", "0">>
SettingsTwo == <<" ", "a", "l", "i", "g", "n", ":", "s", "t", "a", "r", "t", " ", "p", "o", "s", "i", "t", "i", "o", "n", ":", "5", "0", "%">>
CueSettings == { <<>>, SettingAlign, SettingLine, SettingsTwo }

\* The timing line 1.0 --> 4.5, with or without hours, followed by settings.
SettingsTimingLine(short, settings) ==
    TimingLine([start |-> 1000, end |-> 4500], ".", short) \o settings

\* One-cue files: an optional header, the timing line with its settings, an
\* optional text line.
SettingsFiles ==
    { header \o <<SettingsTimingLine(short, settings)>> \o text :
        header \in { <<>>, <<WEBVTT>> }, short \in BOOLEAN,
        settings \in CueSettings, text \in { <<>>, <<LineTwo>> } }

\* Cue identifiers: none, a numeric one, a name.
IdNumeric == <<"2">>
IdName == <<"i", "n", "t", "r", "o">>
CueIds == { <<>>, <<IdNumeric>>, <<IdName>> }

\* The k-th cue block of a file: its identifier line if any, its timing line
\* (2k-1 s to 2k s), one text line, and the blank line that ends the block.
IdBlock(k, id) ==
    id \o <<TimingLine([start |-> 2000 * k - 1000, end |-> 2000 * k], ".", FALSE),
            IF k % 2 = 1 THEN <<"H", "e", "l", "l", "o">> ELSE <<"W", "o", "r", "l", "d">>,
            <<>> >>
RECURSIVE IdBlocks(_, _)
IdBlocks(ids, k) ==
    IF k > Len(ids) THEN <<>> ELSE IdBlock(k, ids[k]) \o IdBlocks(ids, k + 1)

\* Files of 1..MaxIdCues cue blocks under an optional header and blank line.
IdFiles ==
    UNION { { header \o IdBlocks(ids, 1) :
                header \in { <<>>, <<WEBVTT, <<>> >> }, ids \in [1..n -> CueIds] } :
            n \in 1..MaxIdCues }

\* The inputs drawn: the lines of one of these files.
CueFileDraw ==
    /\ lnLines \in SettingsFiles \cup IdFiles
    /\ lnFront = <<>>
    /\ lnBack = <<>>

-----------------------------------------------------------------------------
(* parseSubtitles on two layouts of the same lines *)

\* Most lines of a text that is laid out twice.
MaxLayoutLines == 3

LayoutLinePool == { WEBVTT, <<"0", "0", ":", "0", "1", " ", "-", "-", ">", " ", "0", "0", ":", "0", "2">>, <<"H", "i">> }
\* Line endings, and blank lines: empty or white space only.
LineEndings == { <<"\n">>, <<"\r", "\n">> }
BlankLines == { <<>>, <<" ", "\t">> }
NoBlank == [at |-> -1, line |-> <<>>]

\* The inputs drawn: up to MaxLayoutLines lines; for the second layout the
\* line ending, a blank line added after `at` of the lines (or none), and a
\* line padded with white space on both sides (or none).
LyDraw ==
    /\ \E n \in 0..MaxLayoutLines : lyLines \in [1..n -> LayoutLinePool]
    /\ lyEol \in LineEndings
    /\ lyBlank \in {NoBlank} \cup [at : 0..Len(lyLines), line : BlankLines]
    /\ lyPad \in 0..Len(lyLines)
    /\ lyPlain = <<>>
    /\ lyLaid = <<>>

\* The text of the first layout: the lines joined by line feeds.
PlainText == Join(lyLines, <<"\n">>)

\* The text of the second layout.
LaidOutText ==
    LET padded == [i \in 1..Len(lyLines) |->
                      IF i = lyPad THEN <<" ", " ">> \o lyLines[i] \o <<" ", "\t">>
                      ELSE lyLines[i]]
        laid == IF lyBlank.at < 0 THEN padded
                ELSE SubSeq(padded, 1, lyBlank.at) \o <<lyBlank.line>>
                     \o From(padded, lyBlank.at + 1)
    IN  Join(laid, lyEol)

\* parseSubtitles(PlainText); lyPlain holds the value returned.
ParsePlainText ==
    /\ lyPlain = <<>>
    /\ lyPlain' = <<parseSubtitles(PlainText)>>
    /\ UNCHANGED <<lyLines, lyEol, lyBlank, lyPad, lyLaid, playerVars, tsVars, psVars,
                   lnVars, twVars, vueVars, srVars, tcVars, listVars>>

\* parseSubtitles(LaidOutText); lyLaid holds the value returned.
ParseLaidOutText ==
    /\ lyLaid = <<>>
    /\ lyLaid' = <<parseSubtitles(LaidOutText)>>
    /\ UNCHANGED <<lyLines, lyEol, lyBlank, lyPad, lyPlain, playerVars, tsVars, psVars,
                   lnVars, twVars, vueVars, srVars, tcVars, listVars>>

-----------------------------------------------------------------------------
(* Two calls of parseSubtitles, one after the other *)

\* Most lines of a text of the two-call runs.
MaxCallLines == 2

CallTiming == <<"0", "0", ":", "0", "1", " ", "-", "-", ">", " ", "0", "0", ":", "0", "2">>
CallText == <<"H", "i">>
CallLinePool == { WEBVTT, CallTiming, CallText }
\* The texts: up to MaxCallLines lines joined by line feeds.
CallTexts ==
    UNION { { Join(ls, <<"\n">>) : ls \in [1..n -> CallLinePool] } : n \in 0..MaxCallLines }

\* The inputs drawn: the text of the first and of the second call.
TwDraw ==
    /\ twTexts \in [1..2 -> CallTexts]
    /\ twLocals = [cur |-> <<>>, buf |-> <<>>, out |-> <<>>]
    /\ twResults = <<>>

\* The next call parseSubtitles(twTexts[k]), made in the same page or server
\* process as the call before it.
CallParseSubtitles ==
    /\ Len(twResults) < 2
    /\ LET act == ParseActivation(twLocals, twTexts[Len(twResults) + 1])
       IN  /\ twLocals' = act
           /\ twResults' = Append(twResults, act.out)
    /\ UNCHANGED <<twTexts, playerVars, tsVars, psVars, lnVars, vueVars, lyVars, srVars, tcVars, listVars>>

-----------------------------------------------------------------------------
(* The React player: catalog and subtitle files served by the backend *)

NoMovie == "none"
NoUrl == "null"

\* The movies returned by GET /api/movies.
MovieIds == {"m1", "m2"}
\* movie.subtitles, as the list of their vttUrl: m1 has two tracks, m2 none.
Tracks(m) == IF m = "m1" THEN <<"u1", "u2">> ELSE <<>>
Urls == {"u1", "u2"}

\* The text the backend returns for a subtitle URL.  u1 is the two-cue
\* WebVTT file Hello/World; u2 is an SRT file whose cues overlap and are not
\* sorted by start time: Aa 3.0-6.0, Bb 1.0-4.0, Cc 3.5-3.8.
Content(u) ==
    IF u = "u1"
    THEN RenderVtt(<<[start |-> 1000, end |-> 2000, text |-> <<"H", "e", "l", "l", "o">>],
                     [start |-> 3000, end |-> 4500, text |-> <<"W", "o", "r", "l", "d">>]>>,
                   <<"\n">>, FALSE)
    ELSE RenderSrt(<<[start |-> 3000, end |-> 6000, text |-> <<"A", "a">>],
                     [start |-> 1000, end |-> 4000, text |-> <<"B", "b">>],
                     [start |-> 3500, end |-> 3800, text |-> <<"C", "c">>]>>,
                   <<"\r", "\n">>)

\* Playback times the engine reports with a time-update (milliseconds):
\* at a start, inside, in a gap, in an overlap, at an end; and -1 s, which
\* the resolver must answer although a media element does not report it.
Times == {-1000, 1000, 1500, 2500, 3500, 4500}
\* Volume levels of the slider, in hundredths.
VolumeLevels == {0, 50, 100}

-----------------------------------------------------------------------------
(* The React player: derived values *)

\* isSubtitlesOn
isSubtitlesOn ==
    selectedSubtitleUrl # NoUrl /\ selectedMovie # NoMovie
        /\ Len(Tracks(selectedMovie)) > 0
\* hasSubtitles
hasSubtitles == selectedMovie # NoMovie /\ Len(Tracks(selectedMovie)) > 0

\* Faulty variant: the overlay rendered without the isSubtitlesOn guard.
OverlayUnguarded ==
    IF selectedMovie # NoMovie /\ currentSubtitle # <<>>
    THEN currentSubtitle ELSE <<>>

\* The text the subtitle overlay shows: {isSubtitlesOn && currentSubtitle && ...}
\* inside the player view; empty when nothing is rendered.
Overlay ==
    IF selectedMovie # NoMovie /\ isSubtitlesOn /\ currentSubtitle # <<>>
    THEN currentSubtitle ELSE <<>>

\* Number of subtitle fetches in flight.
RECURSIVE SumOver(_, _)
SumOver(f, S) ==
    IF S = {} THEN 0
    ELSE LET x == CHOOSE y \in S : TRUE IN f[x] + SumOver(f, S \ {x})
InFlight == SumOver(pending, Urls)

\* Faulty variant: the end bound exclusive.
CueMatchesExclusiveEnd(sub, t) ==
    NumGe(t, sub.startTime) /\ NumLe(t, sub.endTime) /\ t # sub.endTime

\* sub => newCurrentTime >= sub.startTime && newCurrentTime <= sub.endTime
CueMatches(sub, t) == NumGe(t, sub.startTime) /\ NumLe(t, sub.endTime)

\* Faulty variant: the last matching cue instead of the first.
ActiveSubtitleLast(subs, t) ==
    LET hits == {i \in 1..Len(subs) : CueMatches(subs[i], t)}
    IN  IF hits = {} THEN <<>>
        ELSE <<subs[CHOOSE i \in hits : \A j \in hits : i >= j]>>

\* subtitles.find(...): the first matching cue, as a sequence of one cue, or
\* the empty sequence for undefined.
ActiveSubtitle(subs, t) ==
    LET hits == {i \in 1..Len(subs) : CueMatches(subs[i], t)}
    IN  IF hits = {} THEN <<>>
        ELSE <<subs[CHOOSE i \in hits : \A j \in hits : i <= j]>>

-----------------------------------------------------------------------------
(* The React player: effects *)

\* setSelectedSubtitleUrl(u) followed by the effect on [selectedSubtitleUrl]:
\* nothing when the URL is unchanged; for null, setSubtitles([]) and
\* setCurrentSubtitle(''); otherwise a fetch of the URL is started.
SetSelectedSubtitleUrl(u) ==
    /\ selectedSubtitleUrl' = u
    /\ IF u = selectedSubtitleUrl
       THEN UNCHANGED <<subtitles, currentSubtitle, pending, subsFrom>>
       ELSE IF u = NoUrl
       THEN /\ subtitles' = <<>>
            /\ currentSubtitle' = <<>>
            /\ subsFrom' = NoUrl
            /\ UNCHANGED pending
       ELSE /\ InFlight < MaxPending
            /\ pending' = [pending EXCEPT ![u] = @ + 1]
            /\ UNCHANGED <<subtitles, currentSubtitle, subsFrom>>

\* Faulty variant: the selected track kept when the movie has no tracks.
MovieEffectKeepsTrack(m) ==
    /\ videoTime' = Num(0)
    /\ isPlaying' = FALSE
    /\ currentTime' = Num(0)
    /\ SetSelectedSubtitleUrl(IF Len(Tracks(m)) > 0 THEN Tracks(m)[1]
                              ELSE selectedSubtitleUrl)

\* The effect on [selectedMovie, volume] for a selected movie m: the video
\* is reloaded, the player state reset and the default subtitle selected.
MovieEffect(m) ==
    /\ videoTime' = Num(0)
    /\ isPlaying' = FALSE
    /\ currentTime' = Num(0)
    /\ SetSelectedSubtitleUrl(IF Len(Tracks(m)) > 0 THEN Tracks(m)[1] ELSE NoUrl)

\* setVolume(v) with the video present: the effect on [selectedMovie, volume]
\* runs when the volume changed.
SetVolume(v) ==
    /\ volume' = v
    /\ IF v # volume
       THEN MovieEffect(selectedMovie)
       ELSE UNCHANGED <<videoTime, isPlaying, currentTime, selectedSubtitleUrl,
                        subtitles, currentSubtitle, pending, subsFrom>>

-----------------------------------------------------------------------------
(* The React player: event handlers and fetch completions *)

\* handleMovieSelection(movie), from the movie list view.
HandleMovieSelection(m) ==
    /\ selectedMovie = NoMovie
    /\ selectedMovie' = m
    /\ MovieEffect(m)
    /\ lastOp' = "movie"
    /\ UNCHANGED <<volume, tsVars, psVars, lnVars, twVars, vueVars, lyVars, srVars, tcVars, listVars>>

\* handleGoBack: the effect runs and does nothing, selectedMovie being null.
HandleGoBack ==
    /\ selectedMovie # NoMovie
    /\ selectedMovie' = NoMovie
    /\ lastOp' = "back"
    /\ UNCHANGED <<selectedSubtitleUrl, subtitles, currentSubtitle, currentTime,
                   videoTime, volume, isPlaying, pending, subsFrom, tsVars, psVars, lnVars, twVars, vueVars, lyVars, srVars, tcVars, listVars>>

\* handleSubtitleSelection(subtitleUrl), from the subtitle menu: Off or one
\* of the movie's tracks.
HandleSubtitleSelection(u) ==
    /\ hasSubtitles
    /\ u = NoUrl \/ \E i \in 1..Len(Tracks(selectedMovie)) : Tracks(selectedMovie)[i] = u
    /\ SetSelectedSubtitleUrl(u)
    /\ lastOp' = "subtitle"
    /\ UNCHANGED <<selectedMovie, currentTime, videoTime, volume, isPlaying,
                   tsVars, psVars, lnVars, twVars, vueVars, lyVars, srVars, tcVars, listVars>>

\* Faulty variant: the handler resolves at the currentTime state of the last
\* render instead of the time the engine reports.
newCurrentTimeFromState(engineTime, stateTime) == stateTime

\* const newCurrentTime = videoRef.current.currentTime
newCurrentTime(engineTime, stateTime) == engineTime

\* Faulty variant: the handler keeps a cursor, dropping the cues before the
\* one it found.
HandleTimeUpdateCursor(t) ==
    /\ selectedMovie # NoMovie
    /\ videoTime' = t
    /\ currentTime' = t
    /\ LET hits == {i \in 1..Len(subtitles) : CueMatches(subtitles[i], t)}
           first == CHOOSE i \in hits : \A j \in hits : i <= j
       IN  /\ currentSubtitle' = IF hits # {} THEN subtitles[first].text ELSE <<>>
           /\ subtitles' = IF hits # {} THEN From(subtitles, first) ELSE subtitles
    /\ lastOp' = "timeupdate"
    /\ UNCHANGED <<selectedMovie, selectedSubtitleUrl, volume,
                   isPlaying, pending, subsFrom, tsVars, psVars, lnVars, twVars, vueVars, lyVars, srVars, tcVars, listVars>>

\* handleTimeUpdate, the engine reporting playback time t: the time is read,
\* the cue looked up and setCurrentSubtitle called before the handler returns.
HandleTimeUpdate(t) ==
    /\ selectedMovie # NoMovie
    /\ videoTime' = t
    /\ currentTime' = newCurrentTime(t, currentTime)
    /\ LET activeSubtitle == ActiveSubtitle(subtitles, newCurrentTime(t, currentTime))
       IN  currentSubtitle' =
               IF activeSubtitle # <<>> THEN activeSubtitle[1].text ELSE <<>>
    /\ lastOp' = "timeupdate"
    /\ UNCHANGED <<selectedMovie, selectedSubtitleUrl, subtitles, volume,
                   isPlaying, pending, subsFrom, tsVars, psVars, lnVars, twVars, vueVars, lyVars, srVars, tcVars, listVars>>

\* handleSeek / handleFastForward / handleRewind: the video's time and
\* currentTime are set, clamped to 0 from below.
HandleSeek(t) ==
    /\ selectedMovie # NoMovie
    /\ t.v >= 0
    /\ videoTime' = t
    /\ currentTime' = t
    /\ lastOp' = "seek"
    /\ UNCHANGED <<selectedMovie, selectedSubtitleUrl, subtitles, currentSubtitle,
                   volume, isPlaying, pending, subsFrom, tsVars, psVars, lnVars, twVars, vueVars, lyVars, srVars, tcVars, listVars>>

\* togglePlay
TogglePlay ==
    /\ selectedMovie # NoMovie
    /\ isPlaying' = ~isPlaying
    /\ lastOp' = "play"
    /\ UNCHANGED <<selectedMovie, selectedSubtitleUrl, subtitles, currentSubtitle,
                   currentTime, videoTime, volume, pending, subsFrom, tsVars, psVars, lnVars, twVars, vueVars, lyVars, srVars, tcVars, listVars>>

\* handleVolumeChange(e) with e.target.value = v
HandleVolumeChange(v) ==
    /\ selectedMovie # NoMovie
    /\ SetVolume(v)
    /\ lastOp' = "volume"
    /\ UNCHANGED <<selectedMovie, tsVars, psVars, lnVars, twVars, vueVars, lyVars, srVars, tcVars, listVars>>

\* toggleMute
ToggleMute ==
    /\ selectedMovie # NoMovie
    /\ SetVolume(IF volume > 0 THEN 0 ELSE 100)
    /\ lastOp' = "mute"
    /\ UNCHANGED <<selectedMovie, tsVars, psVars, lnVars, twVars, vueVars, lyVars, srVars, tcVars, listVars>>

\* const parsedSubs = parseSubtitles(subtitleContent), for the text fetched
\* from each URL (a function of the URL, the files being fixed).
ParsedSubs == [u \in Urls |-> parseSubtitles(Content(u))]

\* Faulty variant: the parsed cues appended to the cues already installed.
InstalledSubtitlesAppended(old, parsedSubs) == old \o parsedSubs

\* What setSubtitles installs when a fetch succeeded: the parsed cues.
InstalledSubtitles(old, parsedSubs) == parsedSubs

\* A fetch of u completes with an OK response: the text is parsed and
\* setSubtitles(parsedSubs) is called, whatever is selected by now.
FetchResolve(u) ==
    /\ pending[u] > 0
    /\ pending' = [pending EXCEPT ![u] = @ - 1]
    /\ subtitles' = InstalledSubtitles(subtitles, ParsedSubs[u])
    /\ subsFrom' = u
    /\ lastOp' = "fetched"
    /\ UNCHANGED <<selectedMovie, selectedSubtitleUrl, currentSubtitle, currentTime,
                   videoTime, volume, isPlaying, tsVars, psVars, lnVars, twVars, vueVars, lyVars, srVars, tcVars, listVars>>

\* Faulty variant: a failed fetch leaves the installed cues in place.
FetchFailKeepsCues(u) ==
    /\ pending[u] > 0
    /\ pending' = [pending EXCEPT ![u] = @ - 1]
    /\ lastOp' = "fetchfailed"
    /\ UNCHANGED <<selectedMovie, selectedSubtitleUrl, subtitles, subsFrom, currentSubtitle,
                   currentTime, videoTime, volume, isPlaying, tsVars, psVars, lnVars,
                   twVars, vueVars, lyVars, srVars, tcVars, listVars>>

\* A fetch of u fails (network error or response not OK): setSubtitles([]).
FetchFail(u) ==
    /\ pending[u] > 0
    /\ pending' = [pending EXCEPT ![u] = @ - 1]
    /\ subtitles' = <<>>
    /\ subsFrom' = NoUrl
    /\ lastOp' = "fetchfailed"
    /\ UNCHANGED <<selectedMovie, selectedSubtitleUrl, currentSubtitle, currentTime,
                   videoTime, volume, isPlaying, tsVars, psVars, lnVars, twVars, vueVars, lyVars, srVars, tcVars, listVars>>

-----------------------------------------------------------------------------
(* The Vue player (component YouTubePlayer): text tracks and overlay *)

\* Most setActiveSubtitle timeouts pending at a time.
MaxModeTimers == 2
\* The pending timeouts of setActiveSubtitle, oldest first: all have the same
\* delay, so they fire in the order they were set.
NoTimers == <<>>
\* No setActiveSubtitle call since the movie was set.
NoCall == -2
\* Playback times the video element reports (milliseconds).
VueTimes == {0, 1000, 1500, 2500, 3500, 4500}

\* The cues the video element holds for the track loaded from URL u.  The
\* comparison with the React player gives both the same cue list.
TrackCues(u) == ParsedSubs[u]

\* Text track cue order: by start time, then the later end time first, then
\* the order in which the cues were added.
RECURSIVE TextTrackCueOrder(_)
TextTrackCueOrder(cues) ==
    IF cues = <<>> THEN <<>>
    ELSE LET Before(a, i, b, j) ==
                 \/ a.startTime.v < b.startTime.v
                 \/ a.startTime.v = b.startTime.v /\ a.endTime.v > b.endTime.v
                 \/ a.startTime.v = b.startTime.v /\ a.endTime.v = b.endTime.v /\ i <= j
             m == CHOOSE i \in 1..Len(cues) :
                     \A j \in 1..Len(cues) : Before(cues[i], i, cues[j], j)
         IN  <<cues[m]>> \o TextTrackCueOrder(SubSeq(cues, 1, m - 1) \o From(cues, m + 1))

\* track.activeCues at playback time t: the cues with startTime <= t < endTime,
\* in text track cue order.
ActiveCues(cues, t) ==
    LET IsActive(c) == NumLe(c.startTime, t) /\ NumLe(t, c.endTime) /\ t # c.endTime
    IN  SelectSeq(TextTrackCueOrder(cues), IsActive)

\* Array.from(cues).map(c => c.text).join(' ')
CueTexts(cues) == Join([k \in 1..Len(cues) |-> cues[k].text], <<" ">>)

\* syncCueText(): the texts of the active cues of the first showing track
\* that has any, joined with a space; '' when there is none.
syncCueText(m, modes, t) ==
    LET withCues == {i \in 1..Len(modes) :
                        /\ modes[i] = "showing"
                        /\ ActiveCues(TrackCues(Tracks(m)[i]), t) # <<>>}
    IN  IF withCues = {} THEN <<>>
        ELSE CueTexts(ActiveCues(
                 TrackCues(Tracks(m)[CHOOSE i \in withCues : \A j \in withCues : i <= j]), t))

\* The track elements rendered for movie m: the one with the default
\* attribute (:default="i === activeSubtitle", index 0) is showing, the
\* others are disabled.
InitialTrackModes(m) ==
    [i \in 1..Len(Tracks(m)) |-> IF i = 1 THEN "showing" ELSE "disabled"]

\* watch(() => props.movie, ...): the parent passes another movie.
WatchMovie(m) ==
    /\ m # vueMovie
    /\ vueMovie' = m
    /\ vueActiveSubtitle' = IF Len(Tracks(m)) > 0 THEN 0 ELSE -1
    /\ vueTrackModes' = InitialTrackModes(m)
    /\ vueCurrentTime' = Num(0)
    /\ vueSyncTimer' = TRUE
    /\ vueLastCall' = NoCall
    /\ vueLastOp' = "watch"
    /\ UNCHANGED <<vueModeTimers, vueCurrentCueText, playerVars, tsVars, psVars,
                   lnVars, twVars, lyVars, srVars, tcVars, listVars>>

\* The setTimeout(syncCueText, 200) of the watch callback fires.
SyncTimerFires ==
    /\ vueSyncTimer
    /\ vueSyncTimer' = FALSE
    /\ vueCurrentCueText' = syncCueText(vueMovie, vueTrackModes, vueCurrentTime)
    /\ vueLastOp' = "synctimer"
    /\ UNCHANGED <<vueMovie, vueActiveSubtitle, vueTrackModes, vueModeTimers, vueLastCall,
                   vueCurrentTime, playerVars, tsVars, psVars, lnVars, twVars, lyVars, srVars, tcVars, listVars>>

\* onTimeUpdate, the video element reporting playback time t.
onTimeUpdate(t) ==
    /\ vueCurrentTime' = t
    /\ vueCurrentCueText' = syncCueText(vueMovie, vueTrackModes, t)
    /\ vueLastOp' = "timeupdate"
    /\ UNCHANGED <<vueMovie, vueActiveSubtitle, vueTrackModes, vueModeTimers, vueLastCall,
                   vueSyncTimer, playerVars, tsVars, psVars, lnVars, twVars, lyVars, srVars, tcVars, listVars>>

\* setActiveSubtitle(index), from the subtitle selector: a track's button or
\* Off (-1).  The modes are set by a timeout of 50 ms.
setActiveSubtitle(index) ==
    /\ Len(Tracks(vueMovie)) > 0
    /\ index \in -1..(Len(Tracks(vueMovie)) - 1)
    /\ Len(vueModeTimers) < MaxModeTimers
    /\ vueActiveSubtitle' = index
    /\ vueModeTimers' = Append(vueModeTimers, index)
    /\ vueLastCall' = index
    /\ vueLastOp' = "setactive"
    /\ UNCHANGED <<vueMovie, vueTrackModes, vueSyncTimer, vueCurrentTime,
                   vueCurrentCueText, playerVars, tsVars, psVars, lnVars, twVars, lyVars, srVars, tcVars, listVars>>

\* The oldest pending timeout of setActiveSubtitle fires, set by the call
\* with this index: the track at index is set showing and every other track
\* hidden.
ModeTimerFires ==
    /\ vueModeTimers # <<>>
    /\ vueModeTimers' = Tail(vueModeTimers)
    /\ LET index == Head(vueModeTimers)
       IN  vueTrackModes' =
               [i \in 1..Len(vueTrackModes) |-> IF i - 1 = index THEN "showing" ELSE "hidden"]
    /\ vueLastOp' = "modetimer"
    /\ UNCHANGED <<vueMovie, vueActiveSubtitle, vueLastCall, vueSyncTimer, vueCurrentTime,
                   vueCurrentCueText, playerVars, tsVars, psVars, lnVars, twVars, lyVars, srVars, tcVars, listVars>>

-----------------------------------------------------------------------------
(* The Express backend: GET /api/subtitles/:movieId *)

\* Most '/'-separated segments of a fileName query value.
MaxNameSegs == 3

\* A path is the sequence of its segments from the root.  MOVIE_DIRECTORY is
\* taken to be an absolute path.
MOVIE_DIRECTORY == <<"srv", "movies">>

\* The list initMovies built: two movie folders.
ScannedMovies ==
    { [id |-> "alpha-Vx3", originalFolderName |-> "Alpha"],
      [id |-> "beta-Qp7", originalFolderName |-> "Beta"] }
\* Values of the :movieId route parameter: the two ids and an unknown one.
RequestIds == {"alpha-Vx3", "beta-Qp7", "gamma-000"}

\* The regular files of the server's file system; one lies outside
\* MOVIE_DIRECTORY.
FilesOnDisk ==
    { <<"srv", "movies", "Alpha", "en.vtt">>,
      <<"srv", "movies", "Alpha", "film.mp4">>,
      <<"srv", "movies", "Beta", "fr.srt">>,
      <<"srv", "secret.txt">> }
DirectoriesOnDisk ==
    UNION { { SubSeq(f, 1, k) : k \in 0..(Len(f) - 1) } : f \in FilesOnDisk }

\* fs.existsSync: true for files and for directories.
existsSync(p) == p \in FilesOnDisk \cup DirectoriesOnDisk

\* path.normalize on an absolute path: '.' and empty segments are dropped,
\* '..' removes the segment before it and is dropped at the root.
RECURSIVE normalize(_, _)
normalize(done, rest) ==
    IF rest = <<>> THEN done
    ELSE LET h == Head(rest)
         IN  IF h = "." \/ h = ""
             THEN normalize(done, Tail(rest))
             ELSE IF h = ".."
             THEN normalize(IF done = <<>> THEN <<>>
                            ELSE SubSeq(done, 1, Len(done) - 1), Tail(rest))
             ELSE normalize(Append(done, h), Tail(rest))

\* path.join(a, b)
pathJoin(a, b) == normalize(<<>>, a \o b)

\* Segments a fileName is drawn from.
NameSegs == {"..", ".", "Beta", "en.vtt", "fr.srt", "secret.txt"}

\* The request drawn: a movie id and a fileName of up to MaxNameSegs
\* segments; no segment stands for a missing (or empty) fileName.
SrDraw ==
    /\ srMovieId \in RequestIds
    /\ \E n \in 0..MaxNameSegs : srFileName \in [1..n -> NameSegs]
    /\ srStatus = 0
    /\ srRead = <<>>

\* The handler of GET /api/subtitles/:movieId.  readSubtitleFile opens and
\* reads the path it is given; on a directory the read throws and Express
\* answers 500.
GetSubtitles ==
    /\ srStatus = 0
    /\ IF srFileName = <<>>
       THEN srStatus' = 400 /\ srRead' = <<>>
       ELSE LET found == {m \in ScannedMovies : m.id = srMovieId}
            IN  IF found = {}
                THEN srStatus' = 404 /\ srRead' = <<>>
                ELSE LET movie == CHOOSE m \in found : TRUE
                         moviePath == pathJoin(MOVIE_DIRECTORY, <<movie.originalFolderName>>)
                         subtitlePath == pathJoin(moviePath, srFileName)
                     IN  IF existsSync(subtitlePath)
                         THEN /\ srRead' = subtitlePath
                              /\ srStatus' = IF subtitlePath \in FilesOnDisk THEN 200 ELSE 500
                         ELSE srStatus' = 404 /\ srRead' = <<>>
    /\ UNCHANGED <<srMovieId, srFileName, pageVars, tcVars, listVars>>

-----------------------------------------------------------------------------
(* The Express backend: GET /movies/:folder/:file, transcoding of MKV files *)

\* Requests the server handles, at most.
MaxRequests == 3
Requests == 1..MaxRequests

\* What the request names: no file on disk, a file streamed as it is, an MKV.
FileKinds == {"missing", "mp4", "mkv"}

\* Faulty variant: the signal is not sent.
killNotSent(proc) == proc

\* ffmpegProcess.kill(): SIGTERM ends a running process; on a process that
\* never started or is gone it does nothing.
kill(proc) == IF proc = "running" THEN "killed" ELSE proc

\* The route handler for request r.  spawn returns at once: the process is
\* running, or it could not be started and its 'error' event is emitted later.
GetMovieFile(r, kind, started) ==
    /\ tcReq[r] = "none"
    /\ tcReq' = [tcReq EXCEPT ![r] = "open"]
    /\ IF kind = "missing"
       THEN /\ tcRes' = [tcRes EXCEPT ![r] = "ended"]
            /\ UNCHANGED <<tcProc, tcErrPending>>
       ELSE IF kind = "mkv"
       THEN /\ tcRes' = [tcRes EXCEPT ![r] = "open"]
            /\ tcProc' = [tcProc EXCEPT ![r] = IF started THEN "running" ELSE "failed"]
            /\ tcErrPending' = [tcErrPending EXCEPT ![r] = ~started]
       ELSE /\ tcRes' = [tcRes EXCEPT ![r] = "open"]
            /\ UNCHANGED <<tcProc, tcErrPending>>
    /\ UNCHANGED <<pageVars, srVars, listVars>>

\* ffmpegProcess.on('error', ...): res.end()
ErrorEvent(r) ==
    /\ tcErrPending[r]
    /\ tcErrPending' = [tcErrPending EXCEPT ![r] = FALSE]
    /\ tcRes' = [tcRes EXCEPT ![r] = "ended"]
    /\ UNCHANGED <<tcReq, tcProc, pageVars, srVars, listVars>>

\* The process ends by itself ('exit', with any code, is only logged); its
\* stdout ends and the pipe ends the response.
ExitEvent(r) ==
    /\ tcProc[r] = "running"
    /\ tcProc' = [tcProc EXCEPT ![r] = "exited"]
    /\ tcRes' = [tcRes EXCEPT ![r] = "ended"]
    /\ UNCHANGED <<tcReq, tcErrPending, pageVars, srVars, listVars>>

\* res.sendFile has sent the whole file.
SendFileEnds(r) ==
    /\ tcProc[r] = "none"
    /\ tcRes[r] = "open"
    /\ tcRes' = [tcRes EXCEPT ![r] = "ended"]
    /\ UNCHANGED <<tcReq, tcProc, tcErrPending, pageVars, srVars, listVars>>

\* req.on('close', ...): registered in the MKV branch only, it kills the
\* process.  The connection is gone, so the response is over in any branch.
CloseEvent(r) ==
    /\ tcReq[r] = "open"
    /\ tcReq' = [tcReq EXCEPT ![r] = "closed"]
    /\ tcProc' = [tcProc EXCEPT ![r] = kill(tcProc[r])]
    /\ tcRes' = [tcRes EXCEPT ![r] = "ended"]
    /\ UNCHANGED <<tcErrPending, pageVars, srVars, listVars>>

-----------------------------------------------------------------------------
(* The movie list page (pages/index.vue) *)

\* Most movies in the list the backend returns.
MaxListed == 3

\* Movies the backend may list.
ListedIds == {"a", "b", "c", "d"}
\* JSON values res.json() resolves to: null, or a list of distinct movies.
NullData == [isNull |-> TRUE, list |-> <<>>]
MovieLists ==
    UNION { { l \in [1..n -> ListedIds] : \A i, j \in 1..n : l[i] = l[j] => i = j }
            : n \in 0..MaxListed }
JsonData == {NullData} \cup { [isNull |-> FALSE, list |-> l] : l \in MovieLists }
\* data || []
OrEmptyList(data) == IF data.isNull THEN <<>> ELSE data.list
\* error.value = null
NoError == "null"
\* Response statuses that are not OK.
FailureStatuses == {404, 500}
HttpError(status) == IF status = 404 THEN "Error: HTTP 404" ELSE "Error: HTTP 500"

\* Faulty variant: the error is not stored.
ErrorValueNone(err) == NoError

\* error.value = String(err)
ErrorValue(err) == err

\* movies.value[0] || null
FirstOrNull(ms) == IF ms # <<>> THEN ms[1] ELSE NoMovie

\* onMounted(fetchMovies), up to the first await.
FetchMoviesStart ==
    /\ listPc = "unmounted"
    /\ listLoading' = TRUE
    /\ listError' = NoError
    /\ listPc' = "fetch"
    /\ listOp' = "start"
    /\ UNCHANGED <<listMovies, listSelected, listData, pageVars, srVars, tcVars>>

\* The catch block followed by the finally block.
CatchAndFinally(err) ==
    /\ listError' = ErrorValue(err)
    /\ listMovies' = <<>>
    /\ listSelected' = NoMovie
    /\ listLoading' = FALSE
    /\ listPc' = "done"
    /\ listOp' = "failed"
    /\ UNCHANGED <<listData, pageVars, srVars, tcVars>>

\* fetch rejects (network error).
FetchRejects ==
    /\ listPc = "fetch"
    /\ CatchAndFinally("TypeError: Failed to fetch")

\* fetch resolves with a response that is not OK: the handler throws.
ResponseNotOk(status) ==
    /\ listPc = "fetch"
    /\ CatchAndFinally(HttpError(status))

\* fetch resolves with an OK response: res.json() is awaited.
ResponseOk ==
    /\ listPc = "fetch"
    /\ listPc' = "json"
    /\ listOp' = "response"
    /\ UNCHANGED <<listMovies, listSelected, listLoading, listError, listData,
                   pageVars, srVars, tcVars>>

\* res.json() rejects (invalid JSON).
JsonRejects ==
    /\ listPc = "json"
    /\ CatchAndFinally("SyntaxError: Unexpected token")

\* res.json() resolves: the rest of the try block and the finally block.
JsonResolves(data) ==
    /\ listPc = "json"
    /\ listData' = data
    /\ listMovies' = OrEmptyList(data)
    /\ listSelected' = FirstOrNull(OrEmptyList(data))
    /\ listLoading' = FALSE
    /\ listPc' = "done"
    /\ listOp' = "loaded"
    /\ UNCHANGED <<listError, pageVars, srVars, tcVars>>

\* selectMovie(m), from the list, which is rendered when loading is false
\* and error is null.
selectMovie(m) ==
    /\ ~listLoading
    /\ listError = NoError
    /\ \E i \in 1..Len(listMovies) : listMovies[i] = m
    /\ listSelected' = m
    /\ listOp' = "select"
    /\ UNCHANGED <<listMovies, listLoading, listError, listPc, listData,
                   pageVars, srVars, tcVars>>

-----------------------------------------------------------------------------
(* Initial states and specifications *)

TsIdle ==
    /\ tsParts = <<>>
    /\ tsInput = <<>>
    /\ tsResult = <<>>
    /\ tsExpect = NoFields

PsIdle ==
    /\ psBlocks = <<>>
    /\ psEol = <<"\n">>
    /\ psShort = FALSE
    /\ psVtt = <<>>
    /\ psSrt = <<>>

LnIdle ==
    /\ lnLines = <<>>
    /\ lnFront = <<>>
    /\ lnBack = <<>>

TwIdle ==
    /\ twTexts = <<>>
    /\ twLocals = [cur |-> <<>>, buf |-> <<>>, out |-> <<>>]
    /\ twResults = <<>>

LyIdle ==
    /\ lyLines = <<>>
    /\ lyEol = <<"\n">>
    /\ lyBlank = [at |-> -1, line |-> <<>>]
    /\ lyPad = 0
    /\ lyPlain = <<>>
    /\ lyLaid = <<>>

\* No request received.
TcIdle ==
    /\ tcReq = [r \in Requests |-> "none"]
    /\ tcProc = [r \in Requests |-> "none"]
    /\ tcRes = [r \in Requests |-> "none"]
    /\ tcErrPending = [r \in Requests |-> FALSE]

\* The list page before it is mounted: the refs as they are declared.
ListIdle ==
    /\ listMovies = <<>>
    /\ listSelected = NoMovie
    /\ listLoading = TRUE
    /\ listError = NoError
    /\ listPc = "unmounted"
    /\ listOp = "init"
    /\ listData = NullData

SrIdle ==
    /\ srMovieId = "gamma-000"
    /\ srFileName = <<>>
    /\ srStatus = 0
    /\ srRead = <<>>

\* The Vue player not mounted.
VueIdle ==
    /\ vueMovie = NoMovie
    /\ vueActiveSubtitle = -1
    /\ vueTrackModes = <<>>
    /\ vueModeTimers = NoTimers
    /\ vueLastCall = NoCall
    /\ vueSyncTimer = FALSE
    /\ vueCurrentTime = Num(0)
    /\ vueCurrentCueText = <<>>
    /\ vueLastOp = "init"

\* The Vue player mounted with a movie: the watch callback has run once
\* (immediate: true).
VueMounted ==
    /\ vueMovie \in MovieIds
    /\ vueActiveSubtitle = (IF Len(Tracks(vueMovie)) > 0 THEN 0 ELSE -1)
    /\ vueTrackModes = InitialTrackModes(vueMovie)
    /\ vueModeTimers = NoTimers
    /\ vueLastCall = NoCall
    /\ vueSyncTimer = TRUE
    /\ vueCurrentTime = Num(0)
    /\ vueCurrentCueText = <<>>
    /\ vueLastOp = "init"

PlayerInit ==
    /\ selectedMovie = NoMovie
    /\ selectedSubtitleUrl = NoUrl
    /\ subtitles = <<>>
    /\ currentSubtitle = <<>>
    /\ currentTime = Num(0)
    /\ videoTime = Num(0)
    /\ volume = 100
    /\ isPlaying = FALSE
    /\ pending = [u \in Urls |-> 0]
    /\ lastOp = "init"
    /\ subsFrom = NoUrl

\* parseTimestamp as a function of its input.
InitTimestamp == PlayerInit /\ TsDraw /\ PsIdle /\ LnIdle /\ TwIdle /\ VueIdle /\ LyIdle /\ SrIdle /\ TcIdle /\ ListIdle
NextTimestamp == CallParseTimestamp
SpecTimestamp == InitTimestamp /\ [][NextTimestamp]_vars

\* parseSubtitles as a function of its input.
InitParse == PlayerInit /\ TsIdle /\ PsDraw /\ LnIdle /\ TwIdle /\ VueIdle /\ LyIdle /\ SrIdle /\ TcIdle /\ ListIdle
NextParse == ParseVttRendering \/ ParseSrtRendering
SpecParse == InitParse /\ [][NextParse]_vars

\* parseSubtitles of the frontend and of the backend as functions of the text.
InitLines == PlayerInit /\ TsIdle /\ PsIdle /\ LnDraw /\ TwIdle /\ VueIdle /\ LyIdle /\ SrIdle /\ TcIdle /\ ListIdle
NextLines == CallFrontendParse \/ CallBackendParse
SpecLines == InitLines /\ [][NextLines]_vars

\* parseSubtitles of the frontend and of the backend on cue files.
InitCueFiles == PlayerInit /\ TsIdle /\ PsIdle /\ CueFileDraw /\ TwIdle /\ VueIdle /\ LyIdle /\ SrIdle /\ TcIdle /\ ListIdle
SpecCueFiles == InitCueFiles /\ [][NextLines]_vars

\* parseSubtitles on two layouts of the same lines.
InitLayout == PlayerInit /\ TsIdle /\ PsIdle /\ LnIdle /\ TwIdle /\ VueIdle /\ LyDraw /\ SrIdle /\ TcIdle /\ ListIdle
NextLayout == ParsePlainText \/ ParseLaidOutText
SpecLayout == InitLayout /\ [][NextLayout]_vars

\* The subtitle endpoint of the backend.
InitSubtitleRoute ==
    PlayerInit /\ TsIdle /\ PsIdle /\ LnIdle /\ TwIdle /\ VueIdle /\ LyIdle
        /\ SrDraw /\ TcIdle /\ ListIdle
NextSubtitleRoute == GetSubtitles
SpecSubtitleRoute == InitSubtitleRoute /\ [][NextSubtitleRoute]_vars

\* The video route of the backend.  An emitted 'error' event is delivered.
InitTranscode ==
    PlayerInit /\ TsIdle /\ PsIdle /\ LnIdle /\ TwIdle /\ VueIdle /\ LyIdle
        /\ SrIdle /\ TcIdle /\ ListIdle
NextTranscode ==
    \/ \E r \in Requests, kind \in FileKinds, started \in BOOLEAN : GetMovieFile(r, kind, started)
    \/ \E r \in Requests : ErrorEvent(r)
    \/ \E r \in Requests : ExitEvent(r)
    \/ \E r \in Requests : SendFileEnds(r)
    \/ \E r \in Requests : CloseEvent(r)
SpecTranscode ==
    InitTranscode /\ [][NextTranscode]_vars /\ \A r \in Requests : WF_vars(ErrorEvent(r))

\* The movie list page.
InitList ==
    PlayerInit /\ TsIdle /\ PsIdle /\ LnIdle /\ TwIdle /\ VueIdle /\ LyIdle
        /\ SrIdle /\ TcIdle /\ ListIdle
NextList ==
    \/ FetchMoviesStart
    \/ FetchRejects
    \/ \E status \in FailureStatuses : ResponseNotOk(status)
    \/ ResponseOk
    \/ JsonRejects
    \/ \E data \in JsonData : JsonResolves(data)
    \/ \E m \in ListedIds : selectMovie(m)
SpecList == InitList /\ [][NextList]_vars

\* parseSubtitles called twice.
InitTwice == PlayerInit /\ TsIdle /\ PsIdle /\ LnIdle /\ TwDraw /\ VueIdle /\ LyIdle /\ SrIdle /\ TcIdle /\ ListIdle
NextTwice == CallParseSubtitles
SpecTwice == InitTwice /\ [][NextTwice]_vars

\* The Vue player.
InitVue == PlayerInit /\ TsIdle /\ PsIdle /\ LnIdle /\ TwIdle /\ VueMounted /\ LyIdle /\ SrIdle /\ TcIdle /\ ListIdle
NextVue ==
    \/ \E m \in MovieIds : WatchMovie(m)
    \/ SyncTimerFires
    \/ \E t \in VueTimes : onTimeUpdate(Num(Ms(t)))
    \/ \E index \in -1..1 : setActiveSubtitle(index)
    \/ ModeTimerFires
SpecVue == InitVue /\ [][NextVue]_vars

\* The player.
Init == PlayerInit /\ TsIdle /\ PsIdle /\ LnIdle /\ TwIdle /\ VueIdle /\ LyIdle /\ SrIdle /\ TcIdle /\ ListIdle
Next ==
    \/ \E m \in MovieIds : HandleMovieSelection(m)
    \/ HandleGoBack
    \/ \E u \in Urls \cup {NoUrl} : HandleSubtitleSelection(u)
    \/ \E t \in Times : HandleTimeUpdate(Num(Ms(t)))
    \/ \E t \in Times : HandleSeek(Num(Ms(t)))
    \/ TogglePlay
    \/ \E v \in VolumeLevels : HandleVolumeChange(v)
    \/ ToggleMute
    \/ \E u \in Urls : FetchResolve(u)
    \/ \E u \in Urls : FetchFail(u)
Spec == Init /\ [][Next]_vars

-----------------------------------------------------------------------------
(* Properties of the player (specification Spec) *)

\* Text constants.
Hello == <<"H", "e", "l", "l", "o">>
World == <<"W", "o", "r", "l", "d">>

\* t lies in the closed window of cue c.
InWindow(c, t) ==
    /\ ~c.startTime.nan /\ ~c.endTime.nan /\ ~t.nan
    /\ c.startTime.v <= t.v
    /\ t.v <= c.endTime.v
\* The positions of the cues of the current sequence whose window holds the
\* current time.
Matching == {i \in 1..Len(subtitles) : InWindow(subtitles[i], currentTime)}

\* C1: right after a time-update the resolved text is the text of a cue whose
\* closed window [startTime, endTime] holds the current time, and it is empty
\* when no cue's window does.
C1_ResolvedTextInWindow ==
    lastOp = "timeupdate" =>
        IF Matching = {} THEN currentSubtitle = <<>>
        ELSE \E i \in Matching : currentSubtitle = subtitles[i].text

\* C1 witness: a time-update at exactly the end time 4.5 of World shows it.
C1_Witness ==
    /\ lastOp = "timeupdate"
    /\ currentTime = Num(Ms(4500))
    /\ \E i \in 1..Len(subtitles) :
          subtitles[i].endTime = currentTime /\ subtitles[i].text = World
    /\ currentSubtitle = World

\* C2: right after a time-update with several matching cues, the resolved
\* text is that of the matching cue earliest in the sequence.
C2_FirstMatchInSequenceOrder ==
    lastOp = "timeupdate" =>
        \A i \in Matching :
            (\A j \in Matching : i <= j) => currentSubtitle = subtitles[i].text

\* C2 witness: three cues match at 3.5 in a sequence not sorted by start
\* time; the first has the widest window and its text is shown.
C2_Witness ==
    /\ lastOp = "timeupdate"
    /\ Cardinality(Matching) = 3
    /\ subtitles[1].startTime.v > subtitles[2].startTime.v
    /\ subtitles[3].endTime.v - subtitles[3].startTime.v
          < subtitles[1].endTime.v - subtitles[1].startTime.v
    /\ currentSubtitle = subtitles[1].text

\* C3: once no fetch is in flight, a cue sequence set from a fetch is the
\* parse of the track selected last.
C3_SupersededFetchDiscarded ==
    (InFlight = 0 /\ selectedSubtitleUrl # NoUrl /\ subsFrom # NoUrl) =>
        /\ subsFrom = selectedSubtitleUrl
        /\ subtitles = ParsedSubs[selectedSubtitleUrl]

\* C4: once the selected track's cues are installed and no fetch is in
\* flight, the overlay shows nothing or the text of a cue of that track.
C4_NoOldCueAfterSwitch ==
    (InFlight = 0 /\ selectedSubtitleUrl # NoUrl /\ subsFrom = selectedSubtitleUrl) =>
        \/ Overlay = <<>>
        \/ \E i \in 1..Len(subtitles) : subtitles[i].text = Overlay

\* C5: the cue sequence the resolver reads is empty or the complete parse of
\* one subtitle file.
C5_WholeParseOrEmpty ==
    subtitles = <<>> \/ \E u \in Urls : subtitles = ParsedSubs[u]

\* C5 witness: a time-update handler has read the three cues parsed from the
\* second track's file.
C5_Witness ==
    /\ lastOp = "timeupdate"
    /\ Len(subtitles) = 3
    /\ subsFrom = "u2"
    /\ currentSubtitle = <<"B", "b">>

\* The resolver's answer for a cue sequence and a time: the text of the
\* earliest cue of the sequence whose closed window holds the time, else
\* the empty text.
ResolverResult(subs, t) ==
    LET hits == {i \in 1..Len(subs) : InWindow(subs[i], t)}
    IN  IF hits = {} THEN <<>>
        ELSE subs[CHOOSE i \in hits : \A j \in hits : i <= j].text

\* C15: when the time-update handler has returned, the displayed-text state
\* is the resolver's answer for the cue sequence and the playback time the
\* engine reported with that notification, and the time state is that time.
C15_ResolvedWithinTheHandler ==
    lastOp = "timeupdate" =>
        /\ currentTime = videoTime
        /\ currentSubtitle = ResolverResult(subtitles, videoTime)

\* C15 witness: a time-update at 2.5 s, in the gap between the two cues of
\* the first track, has left the displayed text empty.
C15_Witness ==
    /\ lastOp = "timeupdate"
    /\ subsFrom = "u1"
    /\ Len(subtitles) = 2
    /\ videoTime = Num(Ms(2500))
    /\ currentSubtitle = <<>>

\* C26: a time-update leaves the cue sequence, the selected track and the
\* fetches in flight as they were, and the text it sets is the resolver's
\* answer for that cue sequence and the time reported, whatever time updates
\* and seeks came before.
C26_TimeUpdateKeepsNoState ==
    [][lastOp' = "timeupdate" =>
          /\ subtitles' = subtitles
          /\ selectedSubtitleUrl' = selectedSubtitleUrl
          /\ pending' = pending
          /\ currentSubtitle' = ResolverResult(subtitles, currentTime')]_vars

\* C26 witness: a time-update at 1.0 s on the first track has set the text
\* of the first cue and left both cues installed.
C26_Witness ==
    /\ lastOp = "timeupdate"
    /\ selectedSubtitleUrl = "u1"
    /\ subtitles = ParsedSubs["u1"]
    /\ currentTime = Num(Ms(1000))
    /\ currentSubtitle = Hello

\* C28: with no subtitle URL selected the overlay shows no text, whatever
\* the cue sequence and the displayed-text state hold; and the step that
\* selects Off while a track was selected empties both.
C28_NothingShownWhileOff ==
    /\ [](selectedSubtitleUrl = NoUrl => Overlay = <<>>)
    /\ [][(lastOp' = "subtitle" /\ selectedSubtitleUrl # NoUrl
              /\ selectedSubtitleUrl' = NoUrl) =>
             (subtitles' = <<>> /\ currentSubtitle' = <<>>)]_vars

\* C28 witness: Off is selected on the movie with tracks; the fetch of the
\* first track completed afterwards and a time-update found its first cue,
\* so the displayed-text state holds 'Hello', and the overlay shows nothing.
C28_Witness ==
    /\ selectedMovie = "m1"
    /\ selectedSubtitleUrl = NoUrl
    /\ subsFrom = "u1"
    /\ lastOp = "timeupdate"
    /\ currentSubtitle = Hello
    /\ Overlay = <<>>

\* C29: a failed fetch leaves the cue sequence empty; a time-update handled
\* while the cue sequence is empty sets the empty text; and the cue sequence
\* stops being empty only by a fetch that succeeds.
C29_FailedFetchEmptiesCues ==
    /\ [](lastOp = "fetchfailed" => subtitles = <<>>)
    /\ [][/\ (subtitles = <<>> /\ lastOp' = "timeupdate") => currentSubtitle' = <<>>
          /\ (subtitles = <<>> /\ subtitles' # <<>>) => lastOp' = "fetched"]_vars

\* C29 witness: the second track is selected after the first one was
\* displayed, its fetch has failed and none is in flight; a time-update at
\* 3.5 s, inside cues of both tracks, has set the empty text.
C29_Witness ==
    /\ lastOp = "timeupdate"
    /\ selectedMovie = "m1"
    /\ selectedSubtitleUrl = "u2"
    /\ InFlight = 0
    /\ subtitles = <<>>
    /\ currentTime = Num(Ms(3500))
    /\ currentSubtitle = <<>>

C16_OnlyTrackEventsChangeTrack ==
    [][lastOp' \in {"volume", "mute", "seek", "play", "timeupdate"} =>
          /\ selectedSubtitleUrl' = selectedSubtitleUrl
          /\ pending' = pending]_vars

-----------------------------------------------------------------------------
(* Properties of parseTimestamp (specification SpecTimestamp) *)

\* C6: a timestamp written hh:mm:ss<sep>fff parses to hours*3600 +
\* minutes*60 + seconds, and one written mm:ss<sep>fff to minutes*60 +
\* seconds, the fraction kept.
C6_TimestampValue ==
    (tsResult # <<>> /\ tsExpect.form \in {"hms", "ms"}) =>
        tsResult[1] =
            Num(((IF tsExpect.form = "hms" THEN tsExpect.h * 3600 ELSE 0)
                 + tsExpect.m * 60 + tsExpect.s) * Unit + Ms(tsExpect.ms))

\* C6 witness: "01:02:03.456" gives 3723.456.
C6_Witness ==
    /\ tsInput = <<"0", "1", ":", "0", "2", ":", "0", "3", ".", "4", "5", "6">>
    /\ tsResult = <<Num(3723 * Unit + Ms(456))>>

\* A seconds field: digits, optionally a separator and digits.
IsSecondsField(seg) ==
    \/ AllDigits(seg)
    \/ \E i \in 1..Len(seg) :
          /\ seg[i] \in {".", ","}
          /\ AllDigits(SubSeq(seg, 1, i - 1))
          /\ AllDigits(From(seg, i + 1))
\* The segments are those of a well-formed hh:mm:ss[.fff] or mm:ss[.fff].
WellFormedParts(parts) ==
    /\ Len(parts) \in {2, 3}
    /\ \A i \in 1..(Len(parts) - 1) : AllDigits(parts[i])
    /\ IsSecondsField(parts[Len(parts)])

\* C7: every input that is not a well-formed timestamp parses to the
\* number 0.
C7_MalformedGivesZero ==
    (tsResult # <<>> /\ ~WellFormedParts(tsParts)) => tsResult[1] = Num(0)

\* C8: an input whose number of colon-separated segments is neither 2 nor 3
\* parses to 0.
C8_OtherSegmentCountGivesZero ==
    (tsResult # <<>> /\ Len(tsParts) \notin {2, 3}) => tsResult[1] = Num(0)

\* C8 witness: the one-segment input "garbage" has been parsed to 0.
C8_Witness ==
    /\ tsInput = <<"g", "a", "r", "b", "a", "g", "e">>
    /\ tsResult = <<Num(0)>>

\* C14: a timestamp written with ',' before the fraction parses to the same
\* value as the same timestamp written with '.'.
C14_CommaSameAsDot ==
    (tsResult # <<>> /\ tsExpect.form \in {"hms", "ms"} /\ tsExpect.sep = ",") =>
        /\ ~tsResult[1].nan
        /\ tsResult[1] =
              parseTimestamp(Join(FormatParts([tsExpect EXCEPT !.sep = "."]), <<":">>))

\* C14 witness: "01:02:03,456" has been parsed to 3723.456, the value of
\* "01:02:03.456".
C14_Witness ==
    /\ tsInput = <<"0", "1", ":", "0", "2", ":", "0", "3", ",", "4", "5", "6">>
    /\ tsResult = <<Num(3723 * Unit + Ms(456))>>

-----------------------------------------------------------------------------
(* Properties of parseSubtitles (specification SpecParse) *)

\* The cue a block stands for.
BlockCue(b) ==
    [startTime |-> Num(Ms(b.start)), endTime |-> Num(Ms(b.end)), text |-> b.text]

C10_SameSequence ==
    (psVtt # <<>> /\ psSrt # <<>>) => psVtt[1] = psSrt[1]

\* C10 amended: the two renderings parse to sequences of the same length
\* with the same start and end time at every position, and the same text at
\* every position whose text line is neither all digits nor exactly WEBVTT.
C10_SameTimingsAndOrdinaryText ==
    (psVtt # <<>> /\ psSrt # <<>>) =>
        /\ Len(psVtt[1]) = Len(psBlocks)
        /\ Len(psSrt[1]) = Len(psBlocks)
        /\ \A i \in 1..Len(psBlocks) :
              /\ psVtt[1][i].startTime = psSrt[1][i].startTime
              /\ psVtt[1][i].endTime = psSrt[1][i].endTime
              /\ (~AllDigits(psBlocks[i].text) /\ psBlocks[i].text # WEBVTT)
                    => psVtt[1][i].text = psSrt[1][i].text

\* C10 witness: both renderings of a block with fractional end time parsed,
\* the SRT one written with ',' and the WebVTT one without hours.
C10_Witness ==
    /\ psShort
    /\ Len(psBlocks) = 2
    /\ psBlocks[1] = [start |-> 3000, end |-> 4500, text |-> World]
    /\ psBlocks[2].text = <<"4", "2">>
    /\ psVtt # <<>> /\ psSrt # <<>>
    /\ psSrt[1][1] = BlockCue(psBlocks[1])
    /\ psVtt[1][1] = psSrt[1][1]

-----------------------------------------------------------------------------
(* Properties of parseSubtitles on texts of drawn lines (specification     *)
(* SpecLines).  The Ref definitions read the expected cues off the drawn   *)
(* lines directly, without going through the parser's loop.                *)

\* The drawn lines trimmed, the blank ones dropped.
RefLines ==
    LET NonBlank(l) == l # <<>>
    IN  SelectSeq([i \in 1..Len(lnLines) |-> Trim(lnLines[i])], NonBlank)
\* WebVTT mode: the first remaining line is exactly WEBVTT.
RefVtt == RefLines # <<>> /\ RefLines[1] = WEBVTT
\* A line the mode skips: the header in WebVTT mode, an all-digit line in
\* SRT mode.
RefSkipped(l) == IF RefVtt THEN l = WEBVTT ELSE AllDigits(l)
\* The positions of the timing lines, and the position of the k-th one.
RefTimingAt == {i \in 1..Len(RefLines) : Includes(RefLines[i], ARROW)}
RefTiming(k) ==
    CHOOSE i \in RefTimingAt : Cardinality({j \in RefTimingAt : j <= i}) = k
\* The text lines of the k-th cue: the lines not skipped between its timing
\* line and the next timing line or the end of the input.
RefTextLines(k) ==
    LET i == RefTiming(k)
        after == {j \in RefTimingAt : j > i}
        stop == IF after = {} THEN Len(RefLines) + 1
                ELSE CHOOSE j \in after : \A j2 \in after : j <= j2
        NotSkipped(l) == ~RefSkipped(l)
    IN  SelectSeq(SubSeq(RefLines, i + 1, stop - 1), NotSkipped)

\* C11: the text of the k-th cue is its text lines, each trimmed, joined
\* with one space between consecutive lines and trimmed as a whole; empty
\* when the cue has no text line.
C11_TextIsJoinedLines ==
    lnFront # <<>> =>
        \A k \in 1..Cardinality(RefTimingAt) :
            /\ k <= Len(lnFront[1])
            /\ lnFront[1][k].text = Trim(Join(RefTextLines(k), <<" ">>))

\* C11 witness: the text lines " Line one " and "Line two" under one timing
\* line give the text "Line one Line two".
C11_Witness ==
    /\ lnLines = <<TimingLong, LineOnePadded, LineTwo>>
    /\ lnFront # <<>>
    /\ lnFront[1][1].text = LineOne \o <<" ">> \o LineTwo

\* C13: the empty string, a text of blank lines only, and a text whose only
\* non-blank line is the WEBVTT header parse to the empty cue sequence (a
\* value is returned, no error raised).
C13_NothingToParseGivesNoCue ==
    (lnFront # <<>> /\ (RefLines = <<>> \/ RefLines = <<WEBVTT>>)) =>
        lnFront[1] = <<>>

\* C13 witness: the header followed by blank lines has been parsed to the
\* empty sequence.
C13_Witness ==
    /\ lnLines = <<WEBVTT, <<>>, <<>> >>
    /\ lnFront = << <<>> >>

\* C17: for the same text the backend's parseSubtitles and the frontend's
\* return equal cue sequences: the same length and the same startTime,
\* endTime and text at every position.
C17_BackendSameAsFrontend ==
    (lnFront # <<>> /\ lnBack # <<>>) =>
        /\ Len(lnBack[1]) = Len(lnFront[1])
        /\ \A k \in 1..Len(lnFront[1]) :
              /\ lnBack[1][k].startTime = lnFront[1][k].startTime
              /\ lnBack[1][k].endTime = lnFront[1][k].endTime
              /\ lnBack[1][k].text = lnFront[1][k].text

\* C17 witness: both parsers have returned the two cues of an SRT text with
\* ',' timestamps, the first with its text line.
C17_Witness ==
    /\ lnLines = <<TimingShort, LineTwo, TimingLong>>
    /\ lnFront # <<>> /\ lnBack # <<>>
    /\ Len(lnBack[1]) = 2
    /\ lnBack[1][1] = [startTime |-> Num(3 * Unit), endTime |-> Num(4 * Unit + Ms(500)),
                       text |-> LineTwo]
    /\ lnFront[1] = lnBack[1]

\* The text of a timing line before its first arrow, after its first arrow,
\* and between its first arrow and the next one (or the end of the line).
BeforeArrow(l) == SubSeq(l, 1, IndexOf(l, ARROW) - 1)
AfterArrow(l) == From(l, IndexOf(l, ARROW) + Len(ARROW))
BetweenArrows(l) ==
    IF Includes(AfterArrow(l), ARROW) THEN BeforeArrow(AfterArrow(l)) ELSE AfterArrow(l)

\* C19 as stated: one cue per line containing '-->', in the order of the
\* lines, its startTime the parse of the text before the first arrow and its
\* endTime the parse of the text after the first arrow.
C19_OneCuePerArrowLineRest ==
    lnFront # <<>> =>
        /\ Len(lnFront[1]) = Cardinality(RefTimingAt)
        /\ \A k \in 1..Len(lnFront[1]) :
              /\ lnFront[1][k].startTime = parseTimestamp(BeforeArrow(RefLines[RefTiming(k)]))
              /\ lnFront[1][k].endTime = parseTimestamp(AfterArrow(RefLines[RefTiming(k)]))

\* C19 amended: one cue per line containing '-->', in the order of the
\* lines (the last one included), its startTime the parse of the text before
\* the first arrow and its endTime the parse of the text between the first
\* arrow and the second one, or the end of the line when there is no second.
C19_OneCuePerArrowLine ==
    lnFront # <<>> =>
        /\ Len(lnFront[1]) = Cardinality(RefTimingAt)
        /\ \A k \in 1..Len(lnFront[1]) :
              /\ lnFront[1][k].startTime = parseTimestamp(BeforeArrow(RefLines[RefTiming(k)]))
              /\ lnFront[1][k].endTime = parseTimestamp(BetweenArrows(RefLines[RefTiming(k)]))

\* C19 witness: three timing lines, not in order of start time, the second
\* with two arrows, give three cues in the order of the lines: 3.0-4.5,
\* 1.0-2.0 (not 1.0-123.0) and 1.0-2.0.
C19_Witness ==
    /\ lnLines = <<TimingShort, TimingTwoArrows, TimingLong>>
    /\ lnFront # <<>>
    /\ Len(lnFront[1]) = 3
    /\ lnFront[1][1].startTime = Num(3 * Unit)
    /\ lnFront[1][2].startTime = Num(Unit)
    /\ lnFront[1][2].endTime = Num(2 * Unit)
    /\ lnFront[1][3].endTime = Num(2 * Unit)

\* C20: the whole text is parsed in WebVTT mode when the first line that
\* remains after trimming and dropping blank lines is exactly WEBVTT, and in
\* SRT mode in every other case: the value returned is what the loop over
\* the remaining lines gives in that one mode.
C20_ModeFromFirstLine ==
    lnFront # <<>> =>
        lnFront[1] =
            Finalize(LineLoop([cur |-> <<>>, buf |-> <<>>, out |-> <<>>], RefLines,
                              RefLines # <<>> /\ RefLines[1] = WEBVTT))

\* C20 witness: under the header 'WEBVTT - title' the text is parsed in SRT
\* mode: the all-digit line after the timing line is skipped and the cue's
\* text is empty.
C20_Witness ==
    /\ lnLines = <<HeaderWithTitle, TimingLong, DigitLine>>
    /\ lnFront = << <<[startTime |-> Num(Unit), endTime |-> Num(2 * Unit), text |-> <<>>]>> >>

\* The value the loop over the given lines returns in the given mode.
LoopResult(lines, vttMode) ==
    Finalize(LineLoop([cur |-> <<>>, buf |-> <<>>, out |-> <<>>], lines, vttMode))

\* C21: in SRT mode the all-digit lines count for nothing, wherever they
\* stand: the value returned is the one for the text without them, and no
\* cue's text holds one as a line.
C21_DigitLinesSkippedInSrt ==
    (lnFront # <<>> /\ ~RefVtt) =>
        LET NotDigits(l) == ~AllDigits(l)
        IN  /\ lnFront[1] = LoopResult(SelectSeq(RefLines, NotDigits), FALSE)
            /\ \A k \in 1..Len(lnFront[1]) :
                  ~Includes(lnFront[1][k].text, DigitLine)

\* C21 witness: an all-digit line between a timing line and a text line has
\* left the cue's text "Line two".
C21_Witness ==
    /\ lnLines = <<TimingLong, DigitLine, LineTwo>>
    /\ lnFront = << <<[startTime |-> Num(Unit), endTime |-> Num(2 * Unit),
                      text |-> LineTwo]>> >>

\* C22: in WebVTT mode the lines that are exactly WEBVTT count for nothing,
\* wherever they stand: the value returned is the one for the text without
\* them; in SRT mode a line WEBVTT after a timing line is a text line of
\* that cue.
C22_HeaderLinesSkippedInVtt ==
    lnFront # <<>> =>
        IF RefVtt
        THEN LET NotHeader(l) == l # WEBVTT
             IN  lnFront[1] = LoopResult(SelectSeq(RefLines, NotHeader), TRUE)
        ELSE \A k \in 1..Cardinality(RefTimingAt) :
                 \A i \in 1..Len(RefTextLines(k)) :
                     RefTextLines(k)[i] = WEBVTT =>
                         k <= Len(lnFront[1]) /\ Includes(lnFront[1][k].text, WEBVTT)

\* C22 witness: in WebVTT mode a line WEBVTT after the timing line has left
\* the cue's text empty.
C22_Witness ==
    /\ lnLines = <<WEBVTT, TimingLong, WEBVTT>>
    /\ lnFront = << <<[startTime |-> Num(Unit), endTime |-> Num(2 * Unit),
                      text |-> <<>>]>> >>

\* C23: the lines before the first timing line count for nothing: the value
\* returned is the one for the lines from the first timing line on, in the
\* mode the whole text has, and it is empty when there is no timing line.
C23_LinesBeforeFirstCueDiscarded ==
    lnFront # <<>> =>
        IF RefTimingAt = {} THEN lnFront[1] = <<>>
        ELSE lnFront[1] = LoopResult(From(RefLines, RefTiming(1)), RefVtt)

\* C23 witness: a text line before the only timing line is in no cue's text.
C23_Witness ==
    /\ lnLines = <<LineTwo, TimingLong, LineOnePadded>>
    /\ lnFront = << <<[startTime |-> Num(Unit), endTime |-> Num(2 * Unit),
                      text |-> LineOne]>> >>

-----------------------------------------------------------------------------
(* Properties of parseSubtitles on cue files (specification SpecCueFiles) *)

\* The drawn file is a one-cue file whose timing line carries cue settings.
HasCueSettings ==
    \E short \in BOOLEAN, settings \in CueSettings \ {<<>>} :
        \E i \in 1..Len(lnLines) : lnLines[i] = SettingsTimingLine(short, settings)

\* C24: a timing line with cue settings after the end timestamp gives a cue
\* with the start time written on the line and the end time 0.
C24_SettingsGiveEndTimeZero ==
    (lnFront # <<>> /\ HasCueSettings) =>
        /\ Len(lnFront[1]) = 1
        /\ lnFront[1][1].startTime = Num(Unit)
        /\ lnFront[1][1].endTime = Num(0)

\* The positions of the timing lines among the drawn lines, the position of
\* the k-th one, and the text lines of the k-th cue block: the lines after its
\* timing line up to the blank line that ends the block.
RawTimingAt == {i \in 1..Len(lnLines) : Includes(lnLines[i], ARROW)}
RawTiming(k) ==
    CHOOSE i \in RawTimingAt : Cardinality({j \in RawTimingAt : j <= i}) = k
BlockTextLines(k) ==
    LET i == RawTiming(k)
        stops == {j \in (i + 1)..Len(lnLines) : Trim(lnLines[j]) = <<>> \/ j \in RawTimingAt}
        stop == IF stops = {} THEN Len(lnLines) + 1
                ELSE CHOOSE j \in stops : \A j2 \in stops : j <= j2
    IN  [j \in 1..(stop - 1 - i) |-> Trim(lnLines[i + j])]

\* C27: in WebVTT mode the text of every cue is made of the text lines of its
\* own block only; the identifier line of the next block is not in it.
C27_IdentifierNotInText ==
    (lnFront # <<>> /\ RefVtt) =>
        \A k \in 1..Cardinality(RawTimingAt) :
            /\ k <= Len(lnFront[1])
            /\ lnFront[1][k].text = Trim(Join(BlockTextLines(k), <<" ">>))

-----------------------------------------------------------------------------
(* Properties of parseSubtitles on two layouts (specification SpecLayout) *)

\* C25: a text parses to the same cue sequence whether its lines end in
\* line feed or in carriage return and line feed, with or without an added
\* blank or white-space-only line, and with or without white space around a
\* line.
C25_LayoutDoesNotMatter ==
    (lyPlain # <<>> /\ lyLaid # <<>>) => lyLaid[1] = lyPlain[1]

\* C25 witness: a header, a timing line and a text line, laid out with
\* CR LF, a white-space-only line after the header and white space around the
\* timing line, have given the same one cue as the plain text.
C25_Witness ==
    /\ Len(lyLines) = 3 /\ lyLines[1] = WEBVTT /\ lyLines[3] = <<"H", "i">>
    /\ lyEol = <<"\r", "\n">>
    /\ lyBlank = [at |-> 1, line |-> <<" ", "\t">>]
    /\ lyPad = 2
    /\ lyPlain # <<>> /\ lyLaid = lyPlain
    /\ lyLaid[1] = <<[startTime |-> Num(Unit), endTime |-> Num(2 * Unit),
                     text |-> <<"H", "i">>]>>

-----------------------------------------------------------------------------
(* Properties of two calls of parseSubtitles (specification SpecTwice) *)

\* C12: the value the second call returns is the value parseSubtitles gives
\* for its text alone, whatever text the first call parsed; and two calls on
\* the same text return equal sequences.
C12_ParseIsPure ==
    /\ \A k \in 1..Len(twResults) : twResults[k] = parseSubtitles(twTexts[k])
    /\ (Len(twResults) = 2 /\ twTexts[1] = twTexts[2]) => twResults[1] = twResults[2]

\* C12 witness: the first call ended inside a cue with buffered text, and
\* the second call, on a text with no timing line, returned no cue.
C12_Witness ==
    /\ Len(twResults) = 2
    /\ twTexts[1] = Join(<<CallTiming, CallText>>, <<"\n">>)
    /\ twTexts[2] = CallText
    /\ Len(twResults[1]) = 1
    /\ twResults[1][1].text = CallText
    /\ twResults[2] = <<>>

-----------------------------------------------------------------------------
(* Properties of the subtitle endpoint (specification SpecSubtitleRoute) *)

\* Whether path p lies inside directory d.
InsideDir(p, d) == Len(p) > Len(d) /\ SubSeq(p, 1, Len(d)) = d

\* The folders of the movies with the requested id (one or none).
RequestedFolders ==
    { MOVIE_DIRECTORY \o <<m.originalFolderName>> : m \in {x \in ScannedMovies : x.id = srMovieId} }

\* C31: once the request is answered: a missing fileName gave 400 and an
\* unknown movieId 404, with nothing read; otherwise whatever was read lies
\* inside the requested movie's folder, and the answer is 200 only then.
C31_ReadStaysInMovieFolder ==
    srStatus # 0 =>
        /\ srFileName = <<>> => (srStatus = 400 /\ srRead = <<>>)
        /\ (srFileName # <<>> /\ RequestedFolders = {}) => (srStatus = 404 /\ srRead = <<>>)
        /\ srRead # <<>> => \E d \in RequestedFolders : InsideDir(srRead, d)
        /\ srStatus = 200 => \E d \in RequestedFolders : InsideDir(srRead, d)

-----------------------------------------------------------------------------
(* Properties of the movie list page (specification SpecList) *)

\* C33: when fetchMovies has ended, loading is false; after a successful
\* load error is null, movies is the list returned and selected is its first
\* movie, or null for an empty list; after a failed load (fetch rejected,
\* response not OK, JSON invalid) error is set, movies is empty and selected
\* is null.
C33_FetchMoviesOutcome ==
    /\ listPc = "done" => ~listLoading
    /\ listOp = "loaded" =>
          /\ listError = NoError
          /\ listMovies = (IF listData.isNull THEN <<>> ELSE listData.list)
          /\ listSelected = (IF listMovies = <<>> THEN NoMovie ELSE listMovies[1])
    /\ listOp = "failed" =>
          /\ listError # NoError
          /\ listMovies = <<>>
          /\ listSelected = NoMovie

\* C33 witness: the backend answered 500; the load has ended with the error
\* stored, no movies and nothing selected.
C33_Witness ==
    /\ listOp = "failed"
    /\ listPc = "done"
    /\ listError = "Error: HTTP 500"
    /\ ~listLoading
    /\ listMovies = <<>>
    /\ listSelected = NoMovie

-----------------------------------------------------------------------------
(* Properties of the video route (specification SpecTranscode) *)

\* C34: no request that has closed still has its ffmpeg process running;
\* and when ffmpeg could not be started, the response is ended once the
\* 'error' event is handled, which happens.
C34_ProcessTiedToRequest ==
    /\ [](\A r \in Requests : tcReq[r] = "closed" => tcProc[r] # "running")
    /\ [](\A r \in Requests :
             (tcProc[r] = "failed" /\ ~tcErrPending[r]) => tcRes[r] = "ended")
    /\ \A r \in Requests : (tcProc[r] = "failed") ~> (tcRes[r] = "ended")

\* C34 witness: the first request has closed while ffmpeg was transcoding
\* for it and the process is killed; the second request's ffmpeg could not
\* be started and its response is ended, the client still connected.
C34_Witness ==
    /\ tcReq[1] = "closed" /\ tcProc[1] = "killed"
    /\ tcReq[2] = "open" /\ tcProc[2] = "failed" /\ ~tcErrPending[2]
    /\ tcRes[2] = "ended"

-----------------------------------------------------------------------------
(* Properties of the Vue player (specification SpecVue) *)

\* What the React player's handleTimeUpdate displays for a cue list and a
\* playback time.
ReactDisplayed(subs, t) ==
    LET activeSubtitle == ActiveSubtitle(subs, t)
    IN  IF activeSubtitle # <<>> THEN activeSubtitle[1].text ELSE <<>>

\* The showing tracks of the Vue player.
ShowingTracks == {i \in 1..Len(vueTrackModes) : vueTrackModes[i] = "showing"}

\* C18: after a time-update with one track showing, at a time that is not
\* the end time of one of its cues, the Vue player's overlay text is what the
\* React player displays for that track's cue list and that time.
C18_VueShowsWhatReactShows ==
    (vueLastOp = "timeupdate" /\ Cardinality(ShowingTracks) = 1) =>
        \A i \in ShowingTracks :
            LET cues == TrackCues(Tracks(vueMovie)[i])
            IN  (\A k \in 1..Len(cues) : cues[k].endTime # vueCurrentTime) =>
                    vueCurrentCueText = ReactDisplayed(cues, vueCurrentTime)

\* The modes a fired timeout of setActiveSubtitle(index) leaves on n tracks.
ModesFor(index, n) == [i \in 1..n |-> IF i - 1 = index THEN "showing" ELSE "hidden"]

\* C32, the first part: the step of a timeout firing leaves the track at the
\* index of its call the only one showing and every other track hidden
\* (for -1 every track hidden).
C32_FiredTimerSetsModes ==
    [][vueLastOp' = "modetimer" /\ vueModeTimers' # vueModeTimers =>
          vueTrackModes' = ModesFor(Head(vueModeTimers), Len(vueTrackModes))]_vars

\* C32, the second part: with no timeout pending, the modes are those of the
\* last setActiveSubtitle call made for the movie.
C32_ModesOfLastCall ==
    (vueModeTimers = <<>> /\ vueLastCall # NoCall) =>
        vueTrackModes = ModesFor(vueLastCall, Len(vueTrackModes))

\* C32, the third part: the overlay text is empty whenever no track is showing.
C32_NoTextWithoutShowingTrack ==
    ShowingTracks = {} => vueCurrentCueText = <<>>

\* C32: the three parts together.
C32_ModesFollowLastCall ==
    /\ C32_FiredTimerSetsModes
    /\ [](C32_ModesOfLastCall)
    /\ [](C32_NoTextWithoutShowingTrack)

=============================================================================
